---- MODULE Spec2Model ----
(***************************************************************************)
(* Time-series fetch, alignment, gap-filling, slicing and daily            *)
(* aggregation of CloudWatchMetricsFetcher                                 *)
(* (src/src/bedrock_analyzer/core/metrics_fetcher.py).                     *)
(*                                                                         *)
(* Instants are integers (seconds); a timedelta is a number of seconds.    *)
(* An optional value is a sequence: <<>> is Python's None, <<v>> is v.     *)
(***************************************************************************)
EXTENDS Integers, Sequences, FiniteSets, TLC

VARIABLES
    \* ---- a call of one of the pure helpers, and what it returned
    call,               \* [fn, ...arguments]
    rets,               \* the values returned so far, in order
    \* ---- fetch_all_data_mixed_granularity
    cloudwatch_client,  \* which metrics source was given to __init__
    model_ids,          \* argument: sequence of model ids
    granularity_config, \* argument: sequence of <<time_period, period>>
    max_workers,        \* os.cpu_count() or 4
    main_pc,            \* position of the calling thread
    end_time,           \* datetime.now() read at line 167
    fetch_configs,      \* sequence of [period, start_time, end_time]
    chunks_completed,
    total_chunks,
    progress_lock,      \* 0 when free, else the task holding it
    futures,            \* submitted tasks, in submission order
    next_result,        \* index of the future the caller waits for next
    all_fetched_data    \* the map being returned

vars == <<call, rets, cloudwatch_client, model_ids, granularity_config,
          max_workers, main_pc, end_time, fetch_configs, chunks_completed,
          total_chunks, progress_lock, futures, next_result, all_fetched_data>>

pureVars == <<call, rets>>

fetchVars == <<cloudwatch_client, model_ids, granularity_config, max_workers,
               main_pc, end_time, fetch_configs, chunks_completed,
               total_chunks, progress_lock, futures, next_result,
               all_fetched_data>>

----------------------------------------------------------------------------
(* Generic helpers *)

None == <<>>

Some(v) == <<v>>

Min(a, b) == IF a <= b THEN a ELSE b

Max(a, b) == IF a >= b THEN a ELSE b

RECURSIVE SumSeq(_)
SumSeq(s) == IF s = <<>> THEN 0 ELSE Head(s) + SumSeq(Tail(s))

Range(s) == {s[i] : i \in DOMAIN s}

\* sorted(S) for a finite set of integers.
RECURSIVE SortedSeq(_)
SortedSeq(S) ==
    IF S = {} THEN <<>>
    ELSE LET m == CHOOSE x \in S : \A y \in S : x <= y
         IN  <<m>> \o SortedSeq(S \ {m})

Day == 86400

Hour == 3600

----------------------------------------------------------------------------
(* _chunk_time_range *)

max_data_points == 100800

\* The while loop of _chunk_time_range from current_start on.
RECURSIVE ChunkLoop(_, _, _)
ChunkLoop(current_start, end, max_duration) ==
    IF current_start < end
    THEN LET current_end == Min(current_start + max_duration, end)
         IN  <<(<<current_start, current_end>>)>>
                 \o ChunkLoop(current_end, end, max_duration)
    ELSE <<>>

RECURSIVE ChunkLoopNoClamp(_, _, _)
ChunkLoopNoClamp(current_start, end, max_duration) ==
    IF current_start < end
    THEN LET current_end == current_start + max_duration
         IN  <<(<<current_start, current_end>>)>>
                 \o ChunkLoopNoClamp(current_end, end, max_duration)
    ELSE <<>>

\* _chunk_time_range without the min(..., end_time) of line 446.
ChunkTimeRangeNoClamp(start, end, period) ==
    ChunkLoopNoClamp(start, end, max_data_points * period)

_chunk_time_range(start, end, period) ==
    ChunkLoop(start, end, max_data_points * period)

----------------------------------------------------------------------------
(* The metrics source and the datasets built from its responses *)

MetricIds == <<"invocations", "input_tokens", "output_tokens", "throttles",
               "client_errors", "server_errors", "latency">>

MetricSet == Range(MetricIds)

\* all_data_with_timestamps of lines 270-278.
EmptyCollected == [m \in MetricSet |-> [timestamps |-> <<>>, values |-> <<>>]]

\* An empty dataset that forgets the period it was asked for.
EmptyDatasetNoPeriod(period) ==
    [timestamps |-> <<>>, data |-> [m \in MetricSet |-> <<>>], period |-> 0]

\* The dataset of lines 343-355 (and 246-258).
EmptyDataset(period) ==
    [timestamps |-> <<>>, data |-> [m \in MetricSet |-> <<>>], period |-> period]

\* Lines 304-308 for one entry of MetricDataResults.
CollectResult(acc, result) ==
    IF result.Values # <<>> /\ result.Timestamps # <<>>
    THEN [acc EXCEPT ![result.Id] =
            [timestamps |-> @.timestamps \o result.Timestamps,
             values     |-> @.values \o result.Values]]
    ELSE acc

\* Lines 304-308: the loop over response['MetricDataResults'].
RECURSIVE CollectResponse(_, _)
CollectResponse(acc, results) ==
    IF results = <<>> THEN acc
    ELSE CollectResponse(CollectResult(acc, Head(results)), Tail(results))

\* zip(a, b) stops at the shorter list.
ZipLen(a, b) == Min(Len(a), Len(b))

\* {ts: val for ts, val in zip(timestamps, values)}.get(ts): the value of the
\* last pair with that key, None when there is none.
DictGetLast(timestamps, values, ts) ==
    LET hits == {i \in 1..ZipLen(timestamps, values) : timestamps[i] = ts}
    IN  IF hits = {} THEN None
        ELSE Some(values[CHOOSE i \in hits : \A j \in hits : j <= i])

\* A lookup that answers 0 where the metric reported nothing.
DictGetZero(timestamps, values, ts) ==
    LET hit == DictGetLast(timestamps, values, ts)
    IN  IF hit = None THEN Some(0) ELSE hit

\* A lookup in which the first pair with the key stands.
DictGetFirst(timestamps, values, ts) ==
    LET hits == {i \in 1..ZipLen(timestamps, values) : timestamps[i] = ts}
    IN  IF hits = {} THEN None
        ELSE Some(values[CHOOSE i \in hits : \A j \in hits : i <= j])

\* ts_to_value.get(ts) of lines 321-323.
DictGet(timestamps, values, ts) == DictGetLast(timestamps, values, ts)

\* sorted(range(len(ts)), key=lambda i: ts[i]): a stable sort of the indices.
RECURSIVE SortedIndicesFrom(_, _)
SortedIndicesFrom(ts, left) ==
    IF left = {} THEN <<>>
    ELSE LET i == CHOOSE x \in left :
                    \A y \in left : ts[x] < ts[y] \/ (ts[x] = ts[y] /\ x <= y)
         IN  <<i>> \o SortedIndicesFrom(ts, left \ {i})

sorted_indices(ts) == SortedIndicesFrom(ts, DOMAIN ts)

Reorder(s, idx) == [k \in DOMAIN idx |-> s[idx[k]]]

\* Lines 31-38 and 329-334: timestamps sorted, and every non-empty array of
\* the same length reordered with them.
SortAligned(timestamps, data) ==
    IF timestamps = <<>> THEN [timestamps |-> timestamps, data |-> data]
    ELSE LET idx == sorted_indices(timestamps)
         IN  [timestamps |-> Reorder(timestamps, idx),
              data |-> [m \in DOMAIN data |->
                          IF data[m] # <<>> /\ Len(data[m]) = Len(timestamps)
                          THEN Reorder(data[m], idx) ELSE data[m]]]

\* Lines 311-315.
AllTimestamps(collected) ==
    SortedSeq(UNION {Range(collected[m].timestamps) : m \in MetricSet})

\* Lines 310-340: the aligned dataset of a task whose chunks all returned.
AlignDataset(collected, period) ==
    LET all_timestamps == AllTimestamps(collected)
        all_data == [m \in MetricSet |->
                       [k \in DOMAIN all_timestamps |->
                          DictGet(collected[m].timestamps, collected[m].values,
                                  all_timestamps[k])]]
        srt == SortAligned(all_timestamps, all_data)
    IN  [timestamps |-> srt.timestamps, data |-> srt.data, period |-> period]

----------------------------------------------------------------------------
(* fetch_all_data_mixed_granularity: the arguments and the fetch plan *)

\* Model ids are numbered.
MaxModels == 2

Models == 1..MaxModels

\* Line 192: the display windows and their length (days, here in seconds).
TimePeriods == {"1hour", "1day", "7days", "14days", "30days"}

WindowSeconds(time_period) ==
    CASE time_period = "1hour"  -> Hour
      [] time_period = "1day"   -> Day
      [] time_period = "7days"  -> 7 * Day
      [] time_period = "14days" -> 14 * Day
      [] time_period = "30days" -> 30 * Day

\* A dict as the sequence of its items, in insertion order.
DictKeys(items) == [i \in DOMAIN items |-> items[i][1]]

\* Lines 187-193: the distinct periods, in order of first appearance.
RECURSIVE PeriodOrder(_)
PeriodOrder(config) ==
    IF config = <<>> THEN <<>>
    ELSE LET before == PeriodOrder(SubSeq(config, 1, Len(config) - 1))
             period == config[Len(config)][2]
         IN  IF period \in Range(before) THEN before
             ELSE Append(before, period)

\* period_ranges[period]: the windows fetched at that period.
DayList(config, period) ==
    {WindowSeconds(config[i][1]) : i \in {j \in DOMAIN config : config[j][2] = period}}

SetMax(S) == CHOOSE x \in S : \A y \in S : y <= x

SetMin(S) == CHOOSE x \in S : \A y \in S : x <= y

\* A plan that fetches the shortest of the windows sharing a period.
FetchConfigShortest(config, period, now) ==
    [period |-> period,
     start_time |-> now - SetMin(DayList(config, period)),
     end_time |-> now]

\* Lines 196-204: one fetch window per distinct period, back to the longest
\* display window that uses it.
FetchConfig(config, period, now) ==
    [period |-> period,
     start_time |-> now - SetMax(DayList(config, period)),
     end_time |-> now]

FetchConfigs(config, now) ==
    LET order == PeriodOrder(config)
    IN  [k \in DOMAIN order |-> FetchConfig(config, order[k], now)]

\* Lines 209-212: the chunks of every (model, period) pair.
PlannedChunks(ids, configs) ==
    SumSeq([k \in 1..(Len(ids) * Len(configs)) |->
              LET c == configs[((k - 1) % Len(configs)) + 1]
              IN  Len(_chunk_time_range(c.start_time, c.end_time, c.period))])

\* Lines 224-233: the tasks in submission order.
TaskList(ids, configs) ==
    [k \in 1..(Len(ids) * Len(configs)) |->
        LET c == configs[((k - 1) % Len(configs)) + 1]
        IN  [model_id   |-> ids[((k - 1) \div Len(configs)) + 1],
             period     |-> c.period,
             start_time |-> c.start_time,
             end_time   |-> c.end_time]]

\* A future as submitted: its task has not started.
PendingTask(task) ==
    [model_id |-> task.model_id, period |-> task.period,
     start_time |-> task.start_time, end_time |-> task.end_time,
     state |-> "Pending", pc |-> "queued", chunks |-> <<>>, i |-> 0,
     response |-> <<>>, loaded |-> 0,
     collected |-> EmptyCollected, result |-> None]

\* ---- the metrics source given to the fetcher
\* One response: a sequence of MetricDataResults.
Result(id, timestamps, values) ==
    [Id |-> id, Timestamps |-> timestamps, Values |-> values]

\* A source replaying recorded data: every chunk reports two invocation points
\* (newest first), one input-token and one output-token point; the other
\* metrics report nothing.
RecordedResponse(model_id, period, chunk) ==
    LET t0 == chunk[1]
        w  == model_id
    IN  <<Result("invocations", <<t0 + period, t0>>, <<2 * w, w>>),
          Result("input_tokens", <<t0>>, <<10 * w>>),
          Result("output_tokens", <<t0 + period>>, <<20 * w>>),
          Result("throttles", <<>>, <<>>),
          Result("client_errors", <<>>, <<>>),
          Result("server_errors", <<>>, <<>>),
          Result("latency", <<>>, <<>>)>>

MaxReportTime == 2

MaxReportValue == 2

\* What one metric may report in one response of the arbitrary source:
\* nothing, or one point.
ArbitraryPoints ==
    {<<>>} \cup {<<(<<t, v>>)>> : t \in 1..MaxReportTime, v \in 1..MaxReportValue}

ResultOf(id, points) ==
    Result(id, [k \in DOMAIN points |-> points[k][1]],
               [k \in DOMAIN points |-> points[k][2]])

\* A source that may answer anything: input_tokens and output_tokens each
\* report any of ArbitraryPoints, in any chunk.
ArbitraryResponses ==
    {<<Result("invocations", <<>>, <<>>),
       ResultOf("input_tokens", a),
       ResultOf("output_tokens", b),
       Result("throttles", <<>>, <<>>),
       Result("client_errors", <<>>, <<>>),
       Result("server_errors", <<>>, <<>>),
       Result("latency", <<>>, <<>>)>> : a \in ArbitraryPoints, b \in ArbitraryPoints}

\* The responses get_metric_data may give to the call of lines 282-295.
Responses(client, task, chunk) ==
    IF client = "recorded"
    THEN {RecordedResponse(task.model_id, task.period, chunk)}
    ELSE ArbitraryResponses

----------------------------------------------------------------------------
(* fetch_all_data_mixed_granularity and _fetch_raw_data as processes: the     *)
(* calling thread submits one task per (model, period) to a pool of          *)
(* max_workers threads and then collects the futures in submission order.   *)

\* datetime.now(timezone.utc) of line 167.
FetchTime == 30 * Day

Fetching == {t \in DOMAIN futures : futures[t].state = "Fetching"}

Terminal(t) == futures[t].state \in {"Complete", "Failed"}

\* An except branch that returns what was collected before the error.
FailTaskPartial(f) ==
    [f EXCEPT !.state = "Failed", !.pc = "returned",
              !.result = Some(AlignDataset(f.collected, f.period))]

\* The except branch of lines 341-355.
FailTask(f) ==
    [f EXCEPT !.state = "Failed", !.pc = "returned",
              !.result = Some(EmptyDataset(f.period))]

\* Line 192: the lookup of a display window that is not one of the five
\* raises KeyError.
UnknownKeys(config) ==
    {config[i][1] : i \in DOMAIN config} \ TimePeriods

\* Lines 167-214: the fetch plan and the progress counters, or the KeyError
\* of line 192, which leaves the call before anything else is done.
BeginFetch ==
    /\ main_pc = "idle"
    /\ end_time' = FetchTime
    /\ IF UnknownKeys(granularity_config) # {}
       THEN /\ main_pc' = "raised"
            /\ UNCHANGED <<fetch_configs, chunks_completed, total_chunks,
                           all_fetched_data>>
       ELSE LET configs == FetchConfigs(granularity_config, FetchTime)
            IN  /\ fetch_configs' = configs
                /\ chunks_completed' = 0
                /\ total_chunks' = PlannedChunks(model_ids, configs)
                /\ all_fetched_data' = <<>>
                /\ main_pc' = IF Len(model_ids) * Len(configs) = 0
                              THEN "collect" ELSE "submit"
    /\ next_result' = 1
    /\ UNCHANGED <<cloudwatch_client, model_ids, granularity_config,
                   max_workers, progress_lock, futures, pureVars>>

\* Lines 224-233: executor.submit of the next task.
Submit ==
    /\ main_pc = "submit"
    /\ LET tasks == TaskList(model_ids, fetch_configs)
           k     == Len(futures) + 1
       IN  /\ futures' = Append(futures, PendingTask(tasks[k]))
           /\ main_pc' = IF k = Len(tasks) THEN "collect" ELSE "submit"
    /\ UNCHANGED <<cloudwatch_client, model_ids, granularity_config,
                   max_workers, end_time, fetch_configs, chunks_completed,
                   total_chunks, progress_lock, next_result,
                   all_fetched_data, pureVars>>

\* A pool that never runs a task.
WorkerNeverFree(t) == FALSE

\* A pool thread is free for the oldest queued task.
WorkerFree(t) ==
    /\ Cardinality(Fetching) < max_workers
    /\ \A u \in 1..(t - 1) : futures[u].state # "Pending"

\* Line 267: a pool thread takes the task and computes its chunks.
StartTask(t) ==
    /\ futures[t].state = "Pending"
    /\ WorkerFree(t)
    /\ LET f == futures[t]
           chunks == _chunk_time_range(f.start_time, f.end_time, f.period)
       IN  futures' = [futures EXCEPT ![t] =
              [f EXCEPT !.state = "Fetching", !.chunks = chunks, !.i = 1,
                        !.pc = IF chunks = <<>> THEN "align" ELSE "call"]]
    /\ UNCHANGED <<cloudwatch_client, model_ids, granularity_config,
                   max_workers, main_pc, end_time, fetch_configs,
                   chunks_completed, total_chunks, progress_lock, next_result,
                   all_fetched_data, pureVars>>

\* Lines 282-295: get_metric_data answers the request for chunk i.
CallReturns(t) ==
    /\ futures[t].state = "Fetching" /\ futures[t].pc = "call"
    /\ \E response \in Responses(cloudwatch_client, futures[t],
                                 futures[t].chunks[futures[t].i]) :
          futures' = [futures EXCEPT ![t].response = response,
                                     ![t].pc = "progress"]
    /\ UNCHANGED <<cloudwatch_client, model_ids, granularity_config,
                   max_workers, main_pc, end_time, fetch_configs,
                   chunks_completed, total_chunks, progress_lock, next_result,
                   all_fetched_data, pureVars>>

\* Lines 282-295 and 341-355: get_metric_data raises; the task returns the
\* empty dataset.
CallRaises(t) ==
    /\ futures[t].state = "Fetching" /\ futures[t].pc = "call"
    /\ futures' = [futures EXCEPT ![t] = FailTask(@)]
    /\ UNCHANGED <<cloudwatch_client, model_ids, granularity_config,
                   max_workers, main_pc, end_time, fetch_configs,
                   chunks_completed, total_chunks, progress_lock, next_result,
                   all_fetched_data, pureVars>>

LockAlwaysFree == TRUE

\* Line 298: progress_lock can be acquired.
LockFree == progress_lock = 0

\* Lines 298-299: with self.progress_lock, then the read of chunks_completed.
AcquireAndLoad(t) ==
    /\ futures[t].state = "Fetching" /\ futures[t].pc = "progress"
    /\ LockFree
    /\ progress_lock' = t
    /\ futures' = [futures EXCEPT ![t].loaded = chunks_completed,
                                  ![t].pc = "store"]
    /\ UNCHANGED <<cloudwatch_client, model_ids, granularity_config,
                   max_workers, main_pc, end_time, fetch_configs,
                   chunks_completed, total_chunks, next_result,
                   all_fetched_data, pureVars>>

\* A loop that asks for the same chunk again.
SameIndex(i) == i

\* Line 280: the loop over the chunks goes on to the next one.
NextIndex(i) == i + 1

\* Lines 299-308: the write of chunks_completed, the percentage, the release
\* of the lock, then the response is collected and the loop goes on.
StoreAndRelease(t) ==
    /\ futures[t].state = "Fetching" /\ futures[t].pc = "store"
    /\ chunks_completed' = futures[t].loaded + 1
    /\ progress_lock' = IF progress_lock = t THEN 0 ELSE progress_lock
    /\ LET f == futures[t]
       IN  futures' = [futures EXCEPT ![t] =
              IF total_chunks = 0
              THEN FailTask(f)   \* ZeroDivisionError at line 300
              ELSE [f EXCEPT !.collected = CollectResponse(@, f.response),
                             !.response = <<>>,
                             !.i = NextIndex(@),
                             !.pc = IF f.i < Len(f.chunks)
                                    THEN "call" ELSE "align"]]
    /\ UNCHANGED <<cloudwatch_client, model_ids, granularity_config,
                   max_workers, main_pc, end_time, fetch_configs,
                   total_chunks, next_result, all_fetched_data, pureVars>>

\* Lines 310-340: every chunk is in; the task returns the aligned dataset.
AlignAndReturn(t) ==
    /\ futures[t].state = "Fetching" /\ futures[t].pc = "align"
    /\ LET f == futures[t]
       IN  futures' = [futures EXCEPT ![t] =
              [f EXCEPT !.state = "Complete", !.pc = "returned",
                        !.result = Some(AlignDataset(f.collected, f.period))]]
    /\ UNCHANGED <<cloudwatch_client, model_ids, granularity_config,
                   max_workers, main_pc, end_time, fetch_configs,
                   chunks_completed, total_chunks, progress_lock, next_result,
                   all_fetched_data, pureVars>>

\* A store that replaces the whole entry of the model.
StoreResultAlone(data, now, model_id, period, dataset) ==
    [m \in (DOMAIN data) \cup {model_id} |->
        IF m = model_id
        THEN [end_time |-> now, datasets |-> [p \in {period} |-> dataset]]
        ELSE data[m]]

\* all_fetched_data[model_id][period] = new_data, the entry of the model
\* created first when it is new (lines 236-242).
StoreResult(data, now, model_id, period, dataset) ==
    LET entry == IF model_id \in DOMAIN data THEN data[model_id]
                 ELSE [end_time |-> now, datasets |-> <<>>]
        slot  == [p \in (DOMAIN entry.datasets) \cup {period} |->
                    IF p = period THEN dataset ELSE entry.datasets[p]]
        new   == [entry EXCEPT !.datasets = slot]
    IN  [m \in (DOMAIN data) \cup {model_id} |->
            IF m = model_id THEN new ELSE data[m]]

\* Lines 235-242: future.result() of the next future, once its task is over.
GetResult ==
    /\ main_pc = "collect"
    /\ next_result <= Len(futures)
    /\ Terminal(next_result)
    /\ LET f == futures[next_result]
       IN  all_fetched_data' =
              StoreResult(all_fetched_data, end_time, f.model_id, f.period,
                          f.result[1])
    /\ next_result' = next_result + 1
    /\ UNCHANGED <<cloudwatch_client, model_ids, granularity_config,
                   max_workers, main_pc, end_time, fetch_configs,
                   chunks_completed, total_chunks, progress_lock, futures,
                   pureVars>>

\* Lines 260-262: the executor is shut down and the map returned.
ReturnFetched ==
    /\ main_pc = "collect"
    /\ next_result > Len(futures)
    /\ main_pc' = "done"
    /\ UNCHANGED <<cloudwatch_client, model_ids, granularity_config,
                   max_workers, end_time, fetch_configs, chunks_completed,
                   total_chunks, progress_lock, futures, next_result,
                   all_fetched_data, pureVars>>

Next ==
    \/ BeginFetch
    \/ Submit
    \/ GetResult
    \/ ReturnFetched
    \/ \E t \in DOMAIN futures : StartTask(t)
    \/ \E t \in DOMAIN futures : CallReturns(t)
    \/ \E t \in DOMAIN futures : CallRaises(t)
    \/ \E t \in DOMAIN futures : AcquireAndLoad(t)
    \/ \E t \in DOMAIN futures : StoreAndRelease(t)
    \/ \E t \in DOMAIN futures : AlignAndReturn(t)

\* ---- the arguments of a fetch
MaxWorkers == 2

\* At most this many (model, period) tasks in one fetch.
MaxTasks == 4

\* Model id lists without repetition; ids are opaque, so the list of the
\* first n models stands for every list of n models.
ModelIdLists == {[i \in 1..n |-> i] : n \in 0..MaxModels}

\* Granularity configurations: the default of UserInputs (every window at
\* 300 s), one where two windows share a period and a third has its own, and
\* two with periods short enough for a 7-day window to need 2 or 3 chunks.
GranularityConfigs ==
    {<<(<<"1hour", 300>>), <<"1day", 300>>, <<"7days", 300>>,
       <<"14days", 300>>, <<"30days", 300>>>>,
     <<(<<"1day", 60>>), <<"7days", 60>>, <<"30days", 3600>>>>,
     <<(<<"1hour", 1>>), <<"7days", 3>>>>,
     <<(<<"7days", 2>>)>>}

\* No helper is being called.
PureIdle == call = [fn |-> "none"] /\ rets = <<>>

\* The fetcher as constructed (lines 16-21), before any fetch.
Constructed ==
    /\ main_pc = "idle"
    /\ end_time = 0
    /\ fetch_configs = <<>>
    /\ chunks_completed = 0
    /\ total_chunks = 0
    /\ progress_lock = 0
    /\ futures = <<>>
    /\ next_result = 1
    /\ all_fetched_data = <<>>

Init ==
    /\ PureIdle
    /\ Constructed
    /\ cloudwatch_client = "recorded"
    /\ model_ids \in ModelIdLists
    /\ granularity_config \in GranularityConfigs
    /\ Len(model_ids) * Len(PeriodOrder(granularity_config)) <= MaxTasks
    /\ max_workers \in 1..MaxWorkers

Spec == Init /\ [][Next]_vars

\* One task of two chunks against a source that may answer anything.
InitAlign ==
    /\ PureIdle
    /\ Constructed
    /\ cloudwatch_client = "arbitrary"
    /\ model_ids = <<1>>
    /\ granularity_config = <<(<<"7days", 3>>)>>
    /\ max_workers = 1

SpecAlign == InitAlign /\ [][Next]_vars

----------------------------------------------------------------------------
(* _chunk_time_range called on its own *)

MaxChunkTick == 5

MaxChunkPeriod == 3

\* Instants half a period-1 chunk apart, and the second after each.
ChunkInstants ==
    {k * (max_data_points \div 2) + r : k \in 0..MaxChunkTick, r \in {0, 1}}

\* No fetch is running: the fetcher is as constructed, with no arguments.
FetchIdle ==
    /\ Constructed
    /\ cloudwatch_client = "recorded"
    /\ model_ids = <<>>
    /\ granularity_config = <<>>
    /\ max_workers = 1

InitChunk ==
    /\ call \in {[fn |-> "_chunk_time_range", start_time |-> s,
                  end_time |-> e, period |-> p] :
                    s \in ChunkInstants, e \in ChunkInstants,
                    p \in 1..MaxChunkPeriod}
    /\ rets = <<>>
    /\ FetchIdle

CallChunkTimeRange ==
    /\ call.fn = "_chunk_time_range"
    /\ rets = <<>>
    /\ rets' = <<_chunk_time_range(call.start_time, call.end_time, call.period)>>
    /\ UNCHANGED <<call, fetchVars>>

NextChunk == CallChunkTimeRange

SpecChunk == InitChunk /\ [][NextChunk]_vars

----------------------------------------------------------------------------
(* ISO timestamp strings *)

\* A timestamp string: the instant it names and how it writes the UTC offset
\* ("+00:00" or "Z").
\* datetime.isoformat() of an aware UTC datetime.
isoformat(t) == [instant |-> t, offset |-> "+00:00"]

\* datetime.fromisoformat(ts.replace('Z', '+00:00')): either spelling of the
\* offset names the same instant.
fromisoformat(s) == s.instant

ToIso(instants) == [k \in DOMAIN instants |-> isoformat(instants[k])]

FromIso(strings) == [k \in DOMAIN strings |-> fromisoformat(strings[k])]

\* A series as the helpers return it: the pair (timestamps, values).
Series(timestamps, values) == [timestamps |-> timestamps, values |-> values]

----------------------------------------------------------------------------
(* _fill_missing_timestamps *)

\* A lookup that answers 0 for an instant the series does not have.
TimestampMapGetZero(dt_timestamps, values, current_time) ==
    LET n    == Min(Len(dt_timestamps), Len(values))
        hits == {i \in 1..n : dt_timestamps[i] = current_time}
    IN  IF hits = {} THEN Some(0)
        ELSE values[CHOOSE i \in hits : \A j \in hits : j <= i]

\* timestamp_map.get(current_time, None) of the dict built at line 521: the
\* stored value (itself possibly None), of the last entry with that key.
TimestampMapGet(dt_timestamps, values, current_time) ==
    LET n    == Min(Len(dt_timestamps), Len(values))
        hits == {i \in 1..n : dt_timestamps[i] = current_time}
    IN  IF hits = {} THEN None
        ELSE values[CHOOSE i \in hits : \A j \in hits : j <= i]

\* A loop that stops before the last instant.
GridLengthExclusive(start, end, period) ==
    IF end <= start THEN 0 ELSE (end - start - 1) \div period + 1

\* Number of turns of "while current_time <= end_time", current_time
\* advancing by period from start.
GridLength(start, end, period) ==
    IF end < start THEN 0 ELSE (end - start) \div period + 1

_fill_missing_timestamps(timestamps, values, period) ==
    IF timestamps = <<>> \/ values = <<>> THEN Series(timestamps, values)
    ELSE LET dt_timestamps == FromIso(timestamps)
             start == dt_timestamps[1]
             end   == dt_timestamps[Len(dt_timestamps)]
             n     == GridLength(start, end, period)
         IN  Series([k \in 1..n |-> isoformat(start + (k - 1) * period)],
                    [k \in 1..n |-> TimestampMapGet(dt_timestamps, values,
                                                    start + (k - 1) * period)])

----------------------------------------------------------------------------
(* _aggregate_tokens_by_day *)

\* int(x / y) of Python for integers x and y > 0: truncation towards zero.
TruncDiv(x, y) == IF x >= 0 THEN x \div y ELSE -((-x) \div y)

\* A count of windows that stops short of the oldest sample.
DaysNeededNoExtra(now, oldest_ts) == TruncDiv(now - oldest_ts, Day)

\* Line 553.
DaysNeeded(now, oldest_ts) == TruncDiv(now - oldest_ts, Day) + 1

\* Lines 556-560: window day_offset is [now - (day_offset+1) days,
\* now - day_offset days).
Window(now, day_offset) == <<now - (day_offset + 1) * Day, now - day_offset * Day>>

\* Lines 567-570: the first window holding ts, as a set of at most one offset.
WindowOf(now, days_needed, ts) ==
    LET hits == {d \in 0..(days_needed - 1) :
                    Window(now, d)[1] <= ts /\ ts < Window(now, d)[2]}
    IN  IF hits = {} THEN {}
        ELSE {CHOOSE d \in hits : \A e \in hits : d <= e}

\* window_totals[w] after the loop of lines 564-570.
RECURSIVE WindowTotal(_, _, _, _, _)
WindowTotal(now, days_needed, d, dts, token_values) ==
    IF dts = <<>> \/ token_values = <<>> THEN 0
    ELSE (IF WindowOf(now, days_needed, Head(dts)) = {d}
          THEN Head(token_values) ELSE 0)
         + WindowTotal(now, days_needed, d, Tail(dts), Tail(token_values))

\* Offsets in ascending order: the newest window first.
RECURSIVE NewestFirst(_)
NewestFirst(offsets) ==
    IF offsets = {} THEN <<>>
    ELSE LET d == CHOOSE x \in offsets : \A y \in offsets : x <= y
         IN  <<d>> \o NewestFirst(offsets \ {d})

\* Offsets in descending order: windows by ascending start (line 573).
RECURSIVE SortedWindows(_)
SortedWindows(offsets) ==
    IF offsets = {} THEN <<>>
    ELSE LET d == CHOOSE x \in offsets : \A y \in offsets : y <= x
         IN  <<d>> \o SortedWindows(offsets \ {d})

\* now is the clock read at line 548.
_aggregate_tokens_by_day(timestamps, token_values, now) ==
    IF timestamps = <<>> \/ token_values = <<>> THEN Series(<<>>, <<>>)
    ELSE LET dts  == FromIso(timestamps)
             n    == Min(Len(dts), Len(token_values))
             days_needed == DaysNeeded(now, dts[1])
             keys == UNION {WindowOf(now, days_needed, dts[i]) : i \in 1..n}
             sorted_windows == SortedWindows(keys)
         IN  Series([k \in DOMAIN sorted_windows |->
                        isoformat(Window(now, sorted_windows[k])[1])],
                    [k \in DOMAIN sorted_windows |->
                        WindowTotal(now, days_needed, sorted_windows[k],
                                    dts, token_values)])

----------------------------------------------------------------------------
(* _process_combined_time_series, _slice_from_dataset, slice_and_process_data *)

RECURSIVE GCD(_, _)
GCD(a, b) == IF b = 0 THEN a ELSE GCD(b, a % b)

\* t / period_minutes with period_minutes = period / 60 (line 25): the
\* quotient as a fraction in lowest terms.
PerMinute(t, period) ==
    LET g == GCD(t * 60, period)
    IN  [num |-> (t * 60) \div g, den |-> period \div g]

\* Line 485-494.
\* An empty bundle that has a TPD series for every display window.
EmptyTimeSeriesWithTPD(time_period) ==
    [k \in {"RPM", "TPM", "InvocationThrottles", "TPD"} |-> Series(<<>>, <<>>)]

_empty_time_series(time_period) ==
    [k \in {"RPM", "TPM", "InvocationThrottles"}
           \cup (IF time_period # "1hour" THEN {"TPD"} ELSE {}) |->
        Series(<<>>, <<>>)]

\* list[i] if i < len(list) else None (lines 50-51).
ItemAt(list, i) == IF i <= Len(list) THEN list[i] ELSE None

\* The number held by a reading, 0 for None.
Reading(v) == IF v = None THEN 0 ELSE v[1]

\* A test that accepts a timestamp with one of the two readings.
EitherPresent(inp_val, out_val) == inp_val # None \/ out_val # None

\* Line 53.
BothPresent(inp_val, out_val) == inp_val # None /\ out_val # None

Indices(s) == [i \in DOMAIN s |-> i]

\* Lines 49-55: the positions kept for TPM, in order.
ValidIndices(timestamps, input_tokens, output_tokens) ==
    SelectSeq(Indices(timestamps),
              LAMBDA i : BothPresent(ItemAt(input_tokens, i), ItemAt(output_tokens, i)))

\* Lines 97-100: the positions kept for RPM, in order.
RpmIndices(invocations) ==
    SelectSeq(Indices(invocations), LAMBDA i : invocations[i] # None)

\* now is the clock read by _aggregate_tokens_by_day.
_process_combined_time_series(all_data, unsorted, period, time_period, now) ==
    LET srt           == SortAligned(unsorted, all_data)
        timestamps    == srt.timestamps
        data          == srt.data
        input_tokens  == data["input_tokens"]
        output_tokens == data["output_tokens"]
        valid         == ValidIndices(timestamps, input_tokens, output_tokens)
        total_tokens  == [k \in DOMAIN valid |->
                            Reading(ItemAt(input_tokens, valid[k]))
                            + Reading(ItemAt(output_tokens, valid[k]))]
        valid_timestamps == [k \in DOMAIN valid |-> timestamps[valid[k]]]
        has_tpm  == input_tokens # <<>> /\ output_tokens # <<>>
                    /\ total_tokens # <<>>
        has_tpd  == has_tpm /\ time_period # "1hour"
        rpm_at   == RpmIndices(data["invocations"])
        has_rpm  == rpm_at # <<>>
        ts_strings_all == ToIso(timestamps)
        Raw(m)   == _fill_missing_timestamps(ts_strings_all, data[m], period)
        keys ==
            (IF has_tpm THEN {"TPM", "InputTokenCount", "OutputTokenCount"}
             ELSE {})
            \cup (IF has_tpd THEN {"TPD"} ELSE {})
            \cup (IF has_rpm THEN {"RPM", "Invocations"} ELSE {})
            \cup (IF data["throttles"] # <<>>
                  THEN {"InvocationThrottles"} ELSE {})
            \cup (IF data["client_errors"] # <<>>
                  THEN {"InvocationClientErrors"} ELSE {})
            \cup (IF data["server_errors"] # <<>>
                  THEN {"InvocationServerErrors"} ELSE {})
            \cup (IF data["latency"] # <<>> THEN {"InvocationLatency"} ELSE {})
        result == [k \in keys |->
            CASE k = "TPM" ->
                   _fill_missing_timestamps(
                       ToIso(valid_timestamps),
                       [j \in DOMAIN total_tokens |->
                           Some(PerMinute(total_tokens[j], period))],
                       period)
              [] k = "InputTokenCount"  -> Raw("input_tokens")
              [] k = "OutputTokenCount" -> Raw("output_tokens")
              [] k = "TPD" ->
                   _aggregate_tokens_by_day(ToIso(valid_timestamps),
                                            total_tokens, now)
              [] k = "RPM" ->
                   _fill_missing_timestamps(
                       ToIso([j \in DOMAIN rpm_at |-> timestamps[rpm_at[j]]]),
                       [j \in DOMAIN rpm_at |->
                           Some(PerMinute(data["invocations"][rpm_at[j]][1],
                                          period))],
                       period)
              [] k = "Invocations"             -> Raw("invocations")
              [] k = "InvocationThrottles"     -> Raw("throttles")
              [] k = "InvocationClientErrors"  -> Raw("client_errors")
              [] k = "InvocationServerErrors"  -> Raw("server_errors")
              [] k = "InvocationLatency"       -> Raw("latency")]
    IN  IF keys = {} THEN _empty_time_series(time_period) ELSE result

\* Lines 404-427.
\* A test that keeps every point up to the end of the range.
NotAfter(start_time, ts, end) == ts <= end

\* Line 409: the test of the list comprehension.
InRange(start_time, ts, end) == start_time <= ts /\ ts <= end

_slice_from_dataset(dataset, start_time, end, time_period, now) ==
    LET timestamps == dataset.timestamps
        data       == dataset.data
        indices    == SelectSeq(Indices(timestamps),
                          LAMBDA i : InRange(start_time, timestamps[i], end))
        filtered_timestamps == [k \in DOMAIN indices |-> timestamps[indices[k]]]
        filtered_data == [key \in DOMAIN data |->
            IF data[key] # <<>>
            THEN LET valid_indices ==
                         SelectSeq(indices, LAMBDA i : i <= Len(data[key]))
                 IN  [k \in DOMAIN valid_indices |-> data[key][valid_indices[k]]]
            ELSE <<>>]
    IN  IF indices = <<>> THEN _empty_time_series(time_period)
        ELSE _process_combined_time_series(filtered_data, filtered_timestamps,
                                           dataset.period, time_period, now)

\* What a call did: returned a value, or raised.
Returned(value) == [raised |-> "", value |-> value]

Raised(exception) == [raised |-> exception, value |-> <<>>]

\* fetched_data is the entry of one model in the map returned by
\* fetch_all_data_mixed_granularity.
slice_and_process_data(fetched_data, time_period, config, now) ==
    IF time_period \notin Range(DictKeys(config)) THEN Raised("KeyError")
    ELSE LET period == (CHOOSE it \in Range(config) : it[1] = time_period)[2]
         IN  IF time_period \notin TimePeriods
             THEN Returned(_empty_time_series(time_period))
             ELSE IF period \notin DOMAIN fetched_data.datasets
             THEN Returned(_empty_time_series(time_period))
             ELSE Returned(_slice_from_dataset(
                               fetched_data.datasets[period],
                               fetched_data.end_time - WindowSeconds(time_period),
                               fetched_data.end_time, time_period, now))

----------------------------------------------------------------------------
(* _fill_missing_timestamps called on its own, once and then on its result *)

MaxInstant == 4

MaxSeriesLen == 3

MaxFillPeriod == 2

MaxFillValue == 1

\* The strictly ascending sequences of at most n members of S: timestamps
\* reach the helpers sorted (lines 31-33) and distinct (lines 311-315).
AscendingSeqs(S, n) ==
    {SortedSeq(T) : T \in {U \in SUBSET S : Cardinality(U) <= n}}

FillValues == {None} \cup {Some(v) : v \in 0..MaxFillValue}

InitFill ==
    /\ \E ts \in AscendingSeqs(0..MaxInstant, MaxSeriesLen),
          p \in 1..MaxFillPeriod :
         \E vs \in [DOMAIN ts -> FillValues] :
            call = [fn |-> "_fill_missing_timestamps", timestamps |-> ToIso(ts),
                    values |-> vs, period |-> p]
    /\ rets = <<>>
    /\ FetchIdle

CallFill ==
    /\ call.fn = "_fill_missing_timestamps"
    /\ rets = <<>>
    /\ rets' = <<_fill_missing_timestamps(call.timestamps, call.values,
                                          call.period)>>
    /\ UNCHANGED <<call, fetchVars>>

CallFillAgain ==
    /\ call.fn = "_fill_missing_timestamps"
    /\ Len(rets) = 1
    /\ rets' = Append(rets, _fill_missing_timestamps(rets[1].timestamps,
                                                     rets[1].values,
                                                     call.period))
    /\ UNCHANGED <<call, fetchVars>>

NextFill == CallFill \/ CallFillAgain

SpecFill == InitFill /\ [][NextFill]_vars

----------------------------------------------------------------------------
(* _aggregate_tokens_by_day called on its own *)

MaxAgeDays == 2

MaxSamples == 3

MaxTokens == 2

\* How long before the clock reading of line 548 a sample may lie: just
\* inside a window, an hour inside, and exactly on its older edge.
SampleAges == {d * Day + e : d \in 0..MaxAgeDays, e \in {1, Hour, Day}}

InitAgg ==
    /\ \E now \in {FetchTime + Hour} :
         \E ts \in AscendingSeqs({now - a : a \in SampleAges}, MaxSamples) :
            \E vs \in [DOMAIN ts -> 0..MaxTokens] :
               call = [fn |-> "_aggregate_tokens_by_day",
                       timestamps |-> ToIso(ts), token_values |-> vs,
                       now |-> now]
    /\ rets = <<>>
    /\ FetchIdle

CallAggregate ==
    /\ call.fn = "_aggregate_tokens_by_day"
    /\ rets = <<>>
    /\ rets' = <<_aggregate_tokens_by_day(call.timestamps, call.token_values,
                                          call.now)>>
    /\ UNCHANGED <<call, fetchVars>>

NextAgg == CallAggregate

SpecAgg == InitAgg /\ [][NextAgg]_vars

----------------------------------------------------------------------------
(* slice_and_process_data called on the entry of one model *)

MaxPoints == 3

\* Two of the periods offered by the granularity menu.
ProcessPeriods == {300, 3600}

\* How long before end_time a point of the dataset may lie, on the grid of
\* the period: one and three periods, and 25 and 26 periods (beyond the last
\* hour at 300 s, beyond the last day at 3600 s).
PointAges(period) == {period, 3 * period, 25 * period, 26 * period}

\* The reading of metric m at position k of the timeline.
ReadingAt(m, k) ==
    CASE m = "input_tokens"  -> 4 ^ k
      [] m = "output_tokens" -> 2 * (4 ^ k)
      [] OTHER               -> k

\* Which metrics report at one instant: at least one, or the instant would
\* not be on the timeline.
Reporting == (SUBSET {"input_tokens", "output_tokens", "invocations"}) \ {{}}

\* An aligned dataset: every metric list as long as the timeline.
Dataset(timestamps, reporting, period) ==
    [timestamps |-> timestamps,
     data |-> [m \in MetricSet |->
                 [k \in DOMAIN timestamps |->
                     IF m \in reporting[k] THEN Some(ReadingAt(m, k))
                     ELSE None]],
     period |-> period]

InitProcess ==
    /\ \E period \in ProcessPeriods,
          time_period \in TimePeriods \cup {"2days"},
          now \in {FetchTime + 1} :
         \E ts \in AscendingSeqs({FetchTime - a : a \in PointAges(period)},
                                 MaxPoints),
            config \in {<<>>} \cup {<<(<<time_period, p>>)>> : p \in ProcessPeriods} :
            \E reporting \in [DOMAIN ts -> Reporting] :
               call = [fn |-> "slice_and_process_data",
                       fetched_data |->
                           [end_time |-> FetchTime,
                            datasets |-> [p \in {period} |->
                                            Dataset(ts, reporting, period)]],
                       time_period |-> time_period,
                       granularity_config |-> config,
                       now |-> now]
    /\ rets = <<>>
    /\ FetchIdle

CallSliceAndProcess ==
    /\ call.fn = "slice_and_process_data"
    /\ rets = <<>>
    /\ rets' = <<slice_and_process_data(call.fetched_data, call.time_period,
                                        call.granularity_config, call.now)>>
    /\ UNCHANGED <<call, fetchVars>>

NextProcess == CallSliceAndProcess

SpecProcess == InitProcess /\ [][NextProcess]_vars

----------------------------------------------------------------------------
(* aggregate_time_series *)

\* all_ts is a dict profile -> bundle, here the sequence of its items.
DictValues(items) == [i \in DOMAIN items |-> items[i][2]]

\* A timeline that leaves out the daily windows.
TimelineMetricsNoTPD == {"TPM", "RPM", "InvocationThrottles"}

\* Line 614: the metrics whose timestamps make the timeline.
TimelineMetrics == {"TPM", "RPM", "TPD", "InvocationThrottles"}

\* Line 624: the metrics summed with elision.
ElidedMetrics == {"TPM", "RPM", "InvocationThrottles"}

\* Lines 612-616: every timestamp of a timeline metric of any profile.
all_timestamps(bundles) ==
    UNION {Range(bundles[i][m].timestamps) :
              i \in DOMAIN bundles,
              m \in TimelineMetrics}

\* Line 621: sorted() of timestamp strings written by isoformat() orders them
\* by instant.
SortedStrings(strings) == ToIso(SortedSeq({fromisoformat(x) : x \in strings}))

\* A bundle without the metric contributes an empty series.
WithAll(bundle) ==
    [m \in TimelineMetrics |->
        IF m \in DOMAIN bundle THEN bundle[m] ELSE Series(<<>>, <<>>)]

\* Lines 630-636: what the pairs of one series add to values_by_ts[ts],
\* None readings skipped.
RECURSIVE AddedBy(_, _, _)
AddedBy(ts_list, val_list, ts) ==
    IF ts_list = <<>> \/ val_list = <<>> THEN 0
    ELSE (IF Head(ts_list) = ts /\ Head(val_list) # None
          THEN Head(val_list)[1] ELSE 0)
         + AddedBy(Tail(ts_list), Tail(val_list), ts)

\* A sum that adds every daily total of the series at every timestamp.
RECURSIVE SpreadTPD(_, _, _)
SpreadTPD(ts_list, val_list, ts) ==
    IF ts_list = <<>> \/ val_list = <<>> THEN 0
    ELSE Head(val_list) + SpreadTPD(Tail(ts_list), Tail(val_list), ts)

\* Lines 645-650: the same for TPD, whose values are plain numbers.
RECURSIVE AddedByTPD(_, _, _)
AddedByTPD(ts_list, val_list, ts) ==
    IF ts_list = <<>> \/ val_list = <<>> THEN 0
    ELSE (IF Head(ts_list) = ts THEN Head(val_list) ELSE 0)
         + AddedByTPD(Tail(ts_list), Tail(val_list), ts)

\* values_by_ts[ts] after the loop over the profiles.
values_by_ts(bundles, metric_name, ts) ==
    SumSeq([i \in DOMAIN bundles |->
              IF metric_name \notin DOMAIN bundles[i] THEN 0
              ELSE IF metric_name = "TPD"
              THEN AddedByTPD(bundles[i][metric_name].timestamps,
                              bundles[i][metric_name].values, ts)
              ELSE AddedBy(bundles[i][metric_name].timestamps,
                           bundles[i][metric_name].values, ts)])

\* A total kept whatever it is.
KeepTotal(total) == Some(total)

\* Line 640: values_by_ts[ts] if values_by_ts[ts] > 0 else None.
Elide(total) == IF total > 0 THEN Some(total) ELSE None

aggregate_time_series(all_ts, time_period) ==
    IF all_ts = <<>> THEN <<>>
    ELSE LET bundles == [i \in DOMAIN all_ts |-> WithAll(all_ts[i][2])]
             stamps  == all_timestamps(bundles)
             sorted_timestamps == SortedStrings(stamps)
             given   == DictValues(all_ts)
         IN  IF stamps = {} THEN _empty_time_series(time_period)
             ELSE [metric_name \in ElidedMetrics
                       \cup (IF time_period # "1hour" THEN {"TPD"} ELSE {}) |->
                      Series(sorted_timestamps,
                             [k \in DOMAIN sorted_timestamps |->
                                 IF metric_name = "TPD"
                                 THEN values_by_ts(given, "TPD",
                                                   sorted_timestamps[k])
                                 ELSE Elide(values_by_ts(given, metric_name,
                                                         sorted_timestamps[k]))])]

----------------------------------------------------------------------------
(* aggregate_time_series called on the bundles of up to two profiles *)

MaxAggInstant == 2

MaxAggValue == 1

AggValues == {None} \cup {Some(v) : v \in 0..MaxAggValue}

\* The series of at most n ascending instants of S with values of V.
SeriesOver(S, V, n) ==
    UNION {{Series(ToIso(ts), vs) : vs \in [DOMAIN ts -> V]} :
              ts \in AscendingSeqs(S, n)}

\* A metric of a bundle: missing, or a series.
Maybe(S) == {None} \cup {Some(x) : x \in S}

\* The bundle holding the metrics chosen.
BundleOf(choice) ==
    [m \in {k \in DOMAIN choice : choice[k] # None} |-> choice[m][1]]

\* Bundles of the first profile: any TPM series of up to two ticks, throttles
\* at the last tick, a daily window that starts off the grid.
FirstBundles ==
    {BundleOf(c) : c \in
        [TPM : Maybe(SeriesOver(1..MaxAggInstant, AggValues, 2)),
         RPM : {None},
         InvocationThrottles :
             Maybe({Series(ToIso(<<MaxAggInstant>>), <<Some(v)>>) :
                       v \in 0..MaxAggValue}),
         TPD : Maybe({Series(<<>>, <<>>)}
                     \cup {Series(ToIso(<<0>>), <<v>>) : v \in 0..MaxAggValue})]}

\* Bundles of the second profile.
SecondBundles ==
    {BundleOf(c) : c \in
        [TPM : Maybe(SeriesOver(1..MaxAggInstant, AggValues, 1)),
         RPM : Maybe({Series(ToIso(<<1>>), <<Some(1)>>)}),
         InvocationThrottles :
             Maybe({Series(ToIso(<<MaxAggInstant>>), <<Some(0)>>)}),
         TPD : Maybe({Series(ToIso(<<0>>), <<1>>)})]}

InitCombine ==
    /\ \E time_period \in {"1hour", "1day"} :
         \E all_ts \in {<<>>}
                       \cup {<<(<<"a", x>>)>> : x \in FirstBundles}
                       \cup {<<(<<"a", x>>), (<<"b", y>>)>> :
                                x \in FirstBundles, y \in SecondBundles} :
            call = [fn |-> "aggregate_time_series", all_ts |-> all_ts,
                    time_period |-> time_period]
    /\ rets = <<>>
    /\ FetchIdle

CallAggregateTimeSeries ==
    /\ call.fn = "aggregate_time_series"
    /\ rets = <<>>
    /\ rets' = <<aggregate_time_series(call.all_ts, call.time_period)>>
    /\ UNCHANGED <<call, fetchVars>>

NextCombine == CallAggregateTimeSeries

SpecCombine == InitCombine /\ [][NextCombine]_vars

----------------------------------------------------------------------------
(* A fetch with the periods of the granularity menu, and the bundle of one   *)
(* display window sliced from the map it returned                            *)

\* The default configuration, one with two windows on one period, one whose
\* longer window has the finer period, and one with a window that is not one
\* of the five.
PlanConfigs ==
    {<<(<<"1hour", 300>>), <<"1day", 300>>, <<"7days", 300>>,
       <<"14days", 300>>, <<"30days", 300>>>>,
     <<(<<"1day", 60>>), <<"7days", 60>>, <<"30days", 3600>>>>,
     <<(<<"1day", 3600>>), <<"7days", 60>>>>,
     <<(<<"1day", 300>>), <<"2days", 300>>>>}

InitPlan ==
    /\ PureIdle
    /\ Constructed
    /\ cloudwatch_client = "recorded"
    /\ model_ids \in ModelIdLists
    /\ granularity_config \in PlanConfigs
    /\ Len(model_ids) * Len(PeriodOrder(granularity_config)) <= MaxTasks
    /\ max_workers \in 1..MaxWorkers

\* The caller asks for the bundle of one configured display window of one
\* model, out of the map the fetch returned.
SliceFetched ==
    /\ main_pc = "done"
    /\ rets = <<>>
    /\ \E m \in DOMAIN all_fetched_data, k \in DOMAIN granularity_config :
          /\ call' = [fn |-> "slice_and_process_data",
                      fetched_data |-> all_fetched_data[m],
                      time_period |-> granularity_config[k][1],
                      granularity_config |-> granularity_config,
                      now |-> end_time + 1]
          /\ rets' = <<slice_and_process_data(all_fetched_data[m],
                                              granularity_config[k][1],
                                              granularity_config,
                                              end_time + 1)>>
    /\ UNCHANGED fetchVars

NextPlan == Next \/ SliceFetched

SpecPlan == InitPlan /\ [][NextPlan]_vars

----------------------------------------------------------------------------
(* aggregate_statistics: pooled statistics over several profiles *)

\* A rational number in lowest terms.
Fraction(n, d) ==
    LET g == GCD(n, d)
    IN  [num |-> n \div g, den |-> d \div g]

\* Lines 455-463 and 466: the statistics of a metric without any value.
EmptyStats ==
    [values |-> <<>>, p50 |-> Fraction(0, 1), p90 |-> Fraction(0, 1),
     count |-> 0, sum |-> 0, avg |-> Fraction(0, 1)]

\* Lines 452-468.
_initialize_metrics(time_period) ==
    [m \in {"Invocations", "InputTokenCount", "OutputTokenCount",
            "InvocationLatency", "InvocationThrottles", "InvocationClientErrors",
            "InvocationServerErrors", "TPM", "RPM"}
           \cup (IF time_period # "1hour" THEN {"TPD"} ELSE {})
        |-> EmptyStats]

\* The position of a smallest member of a non-empty list.
ArgMin(list) ==
    CHOOSE i \in DOMAIN list : \A j \in DOMAIN list : list[i] <= list[j]

Without(list, i) == [k \in 1..(Len(list) - 1) |-> IF k < i THEN list[k] ELSE list[k + 1]]

\* The list in ascending order, duplicates kept.
RECURSIVE SortedList(_)
SortedList(list) ==
    IF list = <<>> THEN <<>>
    ELSE LET i == ArgMin(list)
         IN  <<list[i]>> \o SortedList(Without(list, i))

\* A percentile that takes the sample at the rank rounded down.
PercentileLower(a, q) ==
    LET sorted == SortedList(a)
        rank   == (Len(a) - 1) * q
    IN  Fraction(sorted[rank \div 100 + 1], 1)

\* np.percentile(a, q) with its default method, linear: the rank
\* (n - 1) * q / 100 into the sorted samples, interpolated between the two
\* samples around it.
Percentile(a, q) ==
    LET sorted == SortedList(a)
        rank   == (Len(a) - 1) * q
        lower  == rank \div 100 + 1
        upper  == Min(lower + 1, Len(a))
    IN  Fraction(100 * sorted[lower] + (rank % 100) * (sorted[upper] - sorted[lower]),
                 100)

\* Lines 593-600: the statistics of a non-empty list of values.
StatsOf(all_values) ==
    [values |-> all_values,
     p50    |-> Percentile(all_values, 50),
     p90    |-> Percentile(all_values, 90),
     count  |-> Len(all_values),
     sum    |-> SumSeq(all_values),
     avg    |-> Fraction(SumSeq(all_values), Len(all_values))]

\* Lines 587-590: the values of the metric of every profile, in the order of
\* the profiles.
RECURSIVE Pooled(_, _)
Pooled(stats, metric_name) ==
    IF stats = <<>> THEN <<>>
    ELSE (IF metric_name \in DOMAIN Head(stats)
             /\ Head(stats)[metric_name].values # <<>>
          THEN Head(stats)[metric_name].values ELSE <<>>)
         \o Pooled(Tail(stats), metric_name)

\* Lines 579-602. all_stats is the dict of the profiles' statistics, as its
\* items in insertion order.
aggregate_statistics(all_stats, time_period) ==
    IF all_stats = <<>> THEN <<>>
    ELSE LET aggregated == _initialize_metrics(time_period)
         IN  [metric_name \in DOMAIN aggregated |->
                LET all_values == Pooled(DictValues(all_stats), metric_name)
                IN  IF all_values # <<>> THEN StatsOf(all_values)
                    ELSE aggregated[metric_name]]

----------------------------------------------------------------------------
(* aggregate_statistics on the statistics of up to two profiles *)

\* The longest list of values of one metric of one profile.
MaxStatLen == 2

StatValues == {1, 2, 3, 4}

ValueLists(n) == UNION {[1..k -> StatValues] : k \in 0..n}

\* The statistics of a profile: TPM absent or over any list of values, TPD
\* absent or over one value.
ProfileStats ==
    UNION {{[m \in tpm[1] \cup tpd |->
               IF m = "TPM"
               THEN (IF tpm[2] = <<>> THEN EmptyStats ELSE StatsOf(tpm[2]))
               ELSE StatsOf(<<1>>)] :
              tpd \in {{}, {"TPD"}}} :
           tpm \in {<<{}, <<>> >>} \cup {<<{"TPM"}, v>> : v \in ValueLists(MaxStatLen)}}

InitStats ==
    /\ \E time_period \in {"1hour", "1day"} :
         \E all_stats \in {<<>>}
                \cup {<<(<<"a", x>>)>> : x \in ProfileStats}
                \cup {<<(<<"a", x>>), <<"b", y>> >> : x \in ProfileStats, y \in ProfileStats} :
            call = [fn |-> "aggregate_statistics", all_stats |-> all_stats,
                    time_period |-> time_period]
    /\ rets = <<>>
    /\ FetchIdle

CallAggregateStatistics ==
    /\ call.fn = "aggregate_statistics"
    /\ rets = <<>>
    /\ rets' = <<aggregate_statistics(call.all_stats, call.time_period)>>
    /\ UNCHANGED <<call, fetchVars>>

NextStats == CallAggregateStatistics

SpecStats == InitStats /\ [][NextStats]_vars

----------------------------------------------------------------------------
(* The four operations that return a bundle, for an hour and for a day *)

InitEmptyTimeSeries ==
    /\ \E time_period \in TimePeriods :
          call = [fn |-> "_empty_time_series", time_period |-> time_period]
    /\ rets = <<>>
    /\ FetchIdle

CallEmptyTimeSeries ==
    /\ call.fn = "_empty_time_series"
    /\ rets = <<>>
    /\ rets' = <<_empty_time_series(call.time_period)>>
    /\ UNCHANGED <<call, fetchVars>>

InitBundles ==
    /\ InitProcess \/ InitCombine \/ InitStats \/ InitEmptyTimeSeries
    /\ call.time_period \in {"1hour", "1day"}

NextBundles ==
    \/ CallSliceAndProcess
    \/ CallAggregateTimeSeries
    \/ CallAggregateStatistics
    \/ CallEmptyTimeSeries

SpecBundles == InitBundles /\ [][NextBundles]_vars

----------------------------------------------------------------------------
(* _chunk_time_range, one iteration of its loop at a time *)

\* A longest chunk that forgets the period.
MaxDurationOfOne(period) == max_data_points

\* Lines 438-440.
MaxDuration(period) == max_data_points * period

\* Lines 442-443: chunks = [], current_start = start_time.
InitChunkLoop ==
    /\ call \in {[fn |-> "_chunk_time_range", start_time |-> s,
                  end_time |-> e, period |-> p,
                  current_start |-> s, chunks |-> <<>>] :
                    s \in ChunkInstants, e \in ChunkInstants,
                    p \in 1..MaxChunkPeriod}
    /\ rets = <<>>
    /\ FetchIdle

\* Lines 445-448: one pass through the body of the while loop.
ChunkLoopBody ==
    /\ call.fn = "_chunk_time_range"
    /\ rets = <<>>
    /\ call.current_start < call.end_time
    /\ LET current_end == Min(call.current_start + MaxDuration(call.period),
                              call.end_time)
       IN  call' = [call EXCEPT
                       !.chunks = Append(@, <<call.current_start, current_end>>),
                       !.current_start = current_end]
    /\ UNCHANGED <<rets, fetchVars>>

\* Lines 445 and 450: the loop condition fails and chunks is returned.
ChunkLoopExit ==
    /\ call.fn = "_chunk_time_range"
    /\ rets = <<>>
    /\ ~(call.current_start < call.end_time)
    /\ rets' = <<call.chunks>>
    /\ UNCHANGED <<call, fetchVars>>

NextChunkLoop == ChunkLoopBody \/ ChunkLoopExit

\* The thread that runs the loop keeps running.
SpecChunkLoop ==
    InitChunkLoop /\ [][NextChunkLoop]_vars /\ WF_vars(NextChunkLoop)

----------------------------------------------------------------------------
(* UserInputs._configure_granularity: the dialog that sets granularity_config *)

\* Lines 18-24: the configuration UserInputs is constructed with.
DefaultGranularity ==
    <<(<<"1hour", 300>>), <<"1day", 300>>, <<"7days", 300>>,
      <<"14days", 300>>, <<"30days", 300>>>>

OneHourOptions == <<(<<"1 minute", 60>>), <<"5 minutes", 300>>>>

LongerOptions == <<(<<"1 minute", 60>>), <<"5 minutes", 300>>, <<"1 hour", 3600>>>>

\* Lines 196-202: the periods in the order they are configured.
periods ==
    <<[period_name |-> "1 HOUR", period_key |-> "1hour", options |-> OneHourOptions],
      [period_name |-> "1 DAY", period_key |-> "1day", options |-> LongerOptions],
      [period_name |-> "7 DAYS", period_key |-> "7days", options |-> LongerOptions],
      [period_name |-> "14 DAYS", period_key |-> "14days", options |-> LongerOptions],
      [period_name |-> "30 DAYS", period_key |-> "30days", options |-> LongerOptions]>>

\* A menu that offers every option.
AlwaysAvailable(seconds, min_granularity) == TRUE

\* Line 225, negated: the option is not struck through.
Available(seconds, min_granularity) == ~(seconds < min_granularity)

\* Lines 223-234.
available_options(options, min_granularity) ==
    {i \in DOMAIN options : Available(options[i][2], min_granularity)}

\* self.granularity_config[period_key] = selected_seconds (line 208).
DictSet(items, key, value) ==
    [i \in DOMAIN items |-> IF items[i][1] = key THEN <<key, value>> ELSE items[i]]

\* What the user may type at "Use default granularity settings? (y/n): ".
DefaultAnswers == {"y", "n", ""}

\* What the user may type at "Select granularity (1-n): ": a number, in or
\* out of the range of the menu, or something that is not a number.
SelectAnswers == {"0", "1", "2", "3", "4", "x"}

\* int(input(...)), <<>> standing for ValueError.
ParseInt(text) ==
    CASE text = "0" -> Some(0) [] text = "1" -> Some(1) [] text = "2" -> Some(2)
      [] text = "3" -> Some(3) [] text = "4" -> Some(4) [] OTHER -> None

\* UserInputs as constructed, _configure_granularity called (line 44) and
\* at its first prompt.
InitConfigure ==
    /\ call = [fn |-> "_configure_granularity", pc |-> "use_default",
               granularity_config |-> DefaultGranularity,
               min_granularity |-> 60, prev_period_name |-> None,
               prev_granularity_label |-> None, i |-> 1, message |-> ""]
    /\ rets = <<>>
    /\ FetchIdle

\* Lines 180-182 and 188: the answer to the first prompt.
AnswerUseDefault(use_default) ==
    /\ call.fn = "_configure_granularity" /\ call.pc = "use_default"
    /\ rets = <<>>
    /\ IF use_default = "y"
       THEN /\ rets' = <<None>>
            /\ call' = [call EXCEPT !.pc = "returned"]
       ELSE /\ call' = [call EXCEPT !.pc = "select", !.min_granularity = 60]
            /\ UNCHANGED rets
    /\ UNCHANGED fetchVars

\* Lines 204-213 and 237-244: one answer at the prompt of the period being
\* configured; an answer that is not an available option is asked again.
AnswerSelect(text) ==
    /\ call.fn = "_configure_granularity" /\ call.pc = "select"
    /\ rets = <<>>
    /\ LET p       == periods[call.i]
           choice  == ParseInt(text)
       IN  IF choice = None
           THEN /\ call' = [call EXCEPT !.message = "Please enter a valid number"]
                /\ UNCHANGED rets
           ELSE IF choice[1] \notin available_options(p.options, call.min_granularity)
           THEN /\ call' = [call EXCEPT !.message =
                               "Please select an available (non-strikethrough) option"]
                /\ UNCHANGED rets
           ELSE LET selected_seconds == p.options[choice[1]][2]
                    last == call.i = Len(periods)
                IN  /\ call' = [call EXCEPT
                          !.granularity_config =
                              DictSet(@, p.period_key, selected_seconds),
                          !.min_granularity = Max(@, selected_seconds),
                          !.prev_period_name = Some(p.period_name),
                          !.prev_granularity_label = Some(p.options[choice[1]][1]),
                          !.i = IF last THEN @ ELSE @ + 1,
                          !.message = "",
                          !.pc = IF last THEN "returned" ELSE "select"]
                    /\ rets' = IF last THEN <<None>> ELSE rets
    /\ UNCHANGED fetchVars

NextConfigure ==
    \/ \E use_default \in DefaultAnswers : AnswerUseDefault(use_default)
    \/ \E text \in SelectAnswers : AnswerSelect(text)

SpecConfigure == InitConfigure /\ [][NextConfigure]_vars

----------------------------------------------------------------------------
(* The fetch with threads that keep running *)

\* No step is possible: the fetch has returned its map or raised.
Stopped == main_pc \in {"done", "raised"}

\* The main thread and the pool threads keep running and every call of
\* get_metric_data returns or raises: as long as a step can be taken, one is
\* taken. This is WF_vars(Next) written out, Stopped being ~ENABLED <<Next>>_vars.
SpecLive == Init /\ [][Next]_vars /\ ([]<>Stopped \/ []<><<Next>>_vars)

----------------------------------------------------------------------------
(* Claims *)

ChunkDurations(chunks) == [i \in DOMAIN chunks |-> chunks[i][2] - chunks[i][1]]

\* C1: for start < end and period P >= 1 the chunks returned by
\* _chunk_time_range are contiguous and cover [start, end): the first starts
\* at start, the last ends at end, each ends where the next starts, each lasts
\* more than 0 and at most 100800 x P seconds, and the durations add up to
\* end - start.
C1_ChunksCoverWindow ==
    (call.fn = "_chunk_time_range" /\ rets # <<>>
        /\ call.start_time < call.end_time /\ call.period >= 1)
    => LET chunks == rets[1]
           n == Len(chunks)
       IN  /\ n >= 1
           /\ chunks[1][1] = call.start_time
           /\ chunks[n][2] = call.end_time
           /\ \A i \in 1..(n - 1) : chunks[i][2] = chunks[i + 1][1]
           /\ \A i \in 1..n :
                 /\ chunks[i][2] - chunks[i][1] > 0
                 /\ chunks[i][2] - chunks[i][1] <= 100800 * call.period
           /\ SumSeq(ChunkDurations(chunks)) = call.end_time - call.start_time

\* A window cut into at least three chunks, the last one shorter than the rest.
C1_Witness ==
    /\ call.fn = "_chunk_time_range" /\ rets # <<>>
    /\ Len(rets[1]) >= 3
    /\ LET chunks == rets[1]
       IN  chunks[Len(chunks)][2] - chunks[Len(chunks)][1]
              < chunks[1][2] - chunks[1][1]

AllComplete == \A t \in DOMAIN futures : futures[t].state = "Complete"

ChunksFetched == SumSeq([t \in DOMAIN futures |-> Len(futures[t].chunks)])

\* C2: when fetch_all_data_mixed_granularity returns and no chunk call has
\* failed, chunks_completed equals total_chunks, which is the number of chunks
\* of all the tasks, whatever the pool size and the interleaving.
C2_ProgressEqualsTotal ==
    (main_pc = "done" /\ AllComplete)
    => /\ chunks_completed = total_chunks
       /\ total_chunks = ChunksFetched

\* Two models at two periods fetched by two workers: six chunks in all.
C2_Witness ==
    /\ main_pc = "done" /\ AllComplete
    /\ max_workers >= 2
    /\ Len(model_ids) >= 2 /\ Len(fetch_configs) >= 2
    /\ chunks_completed >= 6

\* What the recorded source makes of a task when every chunk call returns:
\* per chunk the instants t0 and t0 + period, invocations at both, input
\* tokens at t0 only, output tokens at t0 + period only, nothing else.
RecordedDataset(f) ==
    LET chunks == _chunk_time_range(f.start_time, f.end_time, f.period)
        starts == {chunks[i][1] : i \in DOMAIN chunks}
        timeline == SortedSeq(starts \cup {t + f.period : t \in starts})
        At(m, t) ==
            CASE m = "invocations" ->
                    Some(IF t \in starts THEN f.model_id ELSE 2 * f.model_id)
              [] m = "input_tokens" ->
                    IF t \in starts THEN Some(10 * f.model_id) ELSE None
              [] m = "output_tokens" ->
                    IF t \in starts THEN None ELSE Some(20 * f.model_id)
              [] OTHER -> None
    IN  [timestamps |-> timeline,
         data |-> [m \in MetricSet |->
                     [k \in DOMAIN timeline |-> At(m, timeline[k])]],
         period |-> f.period]

\* C3: whichever tasks fail, every task ends, the returned map has exactly one
\* entry per requested model, the slot of a failed task holds the all-empty
\* dataset and the slot of any other task the dataset it holds when nothing
\* fails.
C3_FailuresAreIsolated ==
    main_pc = "done"
    => /\ \A t \in DOMAIN futures : Terminal(t)
       /\ Len(futures) = Len(model_ids) * Len(fetch_configs)
       /\ DOMAIN all_fetched_data = Range(model_ids)
       /\ \A t \in DOMAIN futures :
             LET f == futures[t]
                 entry == all_fetched_data[f.model_id]
             IN  /\ f.period \in DOMAIN entry.datasets
                 /\ entry.datasets[f.period] =
                       IF f.state = "Failed"
                       THEN [timestamps |-> <<>>,
                             data |-> [m \in MetricSet |-> <<>>],
                             period |-> f.period]
                       ELSE RecordedDataset(f)

\* A task fails after its first chunk was fetched while another completes.
C3_Witness ==
    /\ main_pc = "done"
    /\ \E t, u \in DOMAIN futures :
          /\ futures[t].state = "Failed" /\ futures[t].i >= 2
          /\ futures[u].state = "Complete" /\ Len(futures[u].chunks) >= 2

\* A failed task has returned, and returned the empty dataset of its period.
FailedIsEmpty ==
    \A t \in DOMAIN futures :
        futures[t].state = "Failed"
        => /\ futures[t].pc = "returned"
           /\ futures[t].result # None
           /\ futures[t].result[1].timestamps = <<>>
           /\ \A m \in MetricSet : futures[t].result[1].data[m] = <<>>
           /\ futures[t].result[1].period = futures[t].period

\* A chunk call that does not return ends the task as Failed.
RaiseFails ==
    \A t \in DOMAIN futures :
        (futures[t].pc = "call" /\ futures'[t].pc \notin {"call", "progress"})
        => futures'[t].state = "Failed"

\* Complete and Failed are never left, and the result stays.
TerminalStays ==
    \A t \in DOMAIN futures : Terminal(t) => futures'[t] = futures[t]

\* C4: an error of the metrics source at any chunk of a task makes
\* _fetch_raw_data return (not raise) the empty dataset with the requested
\* period, whatever was fetched before; the task is then Failed, and a task
\* that is Complete or Failed never changes again.
C4_FailedButEmpty ==
    /\ []FailedIsEmpty
    /\ [][RaiseFails /\ TerminalStays]_vars

\* One task failed at the middle chunk of three, another at its last chunk.
C4_Witness ==
    \E t, u \in DOMAIN futures :
        /\ futures[t].state = "Failed" /\ Len(futures[t].chunks) = 3
        /\ futures[t].i = 2 /\ futures[t].collected # EmptyCollected
        /\ futures[u].state = "Failed" /\ futures[u].i = Len(futures[u].chunks)
        /\ futures[u].i >= 2

\* The points a task received, in arrival order, and the same as a set.
Reports(f) ==
    UNION {{<<m, f.collected[m].timestamps[k], f.collected[m].values[k]>> :
                k \in 1..Len(f.collected[m].timestamps)} : m \in MetricSet}

ReportedAt(f, m, ts) == {r[3] : r \in {x \in Reports(f) : x[1] = m /\ x[2] = ts}}

\* No metric was reported twice at one instant with two different values.
NoConflict(f) ==
    \A r \in Reports(f) : Cardinality(ReportedAt(f, r[1], r[2])) = 1

\* The points of every metric in the opposite arrival order.
ReverseSeq(s) == [k \in DOMAIN s |-> s[Len(s) + 1 - k]]

ReverseArrival(collected) ==
    [m \in MetricSet |-> [timestamps |-> ReverseSeq(collected[m].timestamps),
                          values |-> ReverseSeq(collected[m].values)]]

\* The timeline is the set of reported instants, strictly ascending, and every
\* metric has one entry per instant, null where it reported nothing.
TimelineIsUnion(f) ==
    LET d == f.result[1]
    IN  /\ Range(d.timestamps) = {r[2] : r \in Reports(f)}
        /\ \A k \in 1..(Len(d.timestamps) - 1) :
              d.timestamps[k] < d.timestamps[k + 1]
        /\ \A m \in MetricSet :
              /\ Len(d.data[m]) = Len(d.timestamps)
              /\ \A k \in DOMAIN d.timestamps :
                    ReportedAt(f, m, d.timestamps[k]) = {} => d.data[m][k] = None

\* Every reported value stands at its instant in the series of its metric.
EveryReportKept(f) ==
    LET d == f.result[1]
    IN  \A r \in Reports(f) :
           \E k \in DOMAIN d.timestamps :
               d.timestamps[k] = r[2] /\ d.data[r[1]][k] = Some(r[3])

\* Another arrival order gives the same dataset.
SameForReverseArrival(f) ==
    f.result[1] = AlignDataset(ReverseArrival(f.collected), f.period)

\* C5 as stated: on success the timeline is the ascending union of the
\* reported instants, each metric holds at each instant the value reported
\* there or null, and the arrival order of the points does not matter.
C5_AlignedAnyOrder ==
    \A t \in DOMAIN futures :
        futures[t].state = "Complete"
        => /\ TimelineIsUnion(futures[t])
           /\ EveryReportKept(futures[t])
           /\ SameForReverseArrival(futures[t])

\* C5, amended: the same, the values and the independence of the arrival order
\* holding when no metric is reported twice at one instant with different
\* values; a metric reported several times at an instant holds one of the
\* reported values.
C5_AlignedUnlessConflict ==
    \A t \in DOMAIN futures :
        futures[t].state = "Complete"
        => /\ TimelineIsUnion(futures[t])
           /\ \A m \in MetricSet, k \in DOMAIN futures[t].result[1].timestamps :
                 LET ts == futures[t].result[1].timestamps[k]
                     v  == futures[t].result[1].data[m][k]
                 IN  ReportedAt(futures[t], m, ts) # {}
                     => v # None /\ v[1] \in ReportedAt(futures[t], m, ts)
           /\ NoConflict(futures[t])
              => /\ EveryReportKept(futures[t])
                 /\ SameForReverseArrival(futures[t])

\* Two chunks answered out of order: the later instant arrives first, one
\* metric reports at an instant where the other is silent.
C5_Witness ==
    \E t \in DOMAIN futures :
        LET f == futures[t]
        IN  /\ f.state = "Complete"
            /\ NoConflict(f)
            /\ f.collected["input_tokens"].timestamps = <<2, 1>>
            /\ f.collected["output_tokens"].timestamps = <<1>>
            /\ f.result[1].timestamps = <<1, 2>>
            /\ f.result[1].data["output_tokens"] = <<Some(f.collected["output_tokens"].values[1]), None>>

FillCalled == call.fn = "_fill_missing_timestamps" /\ Len(rets) >= 1

\* Every timestamp lies a whole number of periods after the first.
OnGrid(dts, period) == \A k \in DOMAIN dts : (dts[k] - dts[1]) % period = 0

\* Consecutive timestamps are exactly one period apart.
Regular(dts, period) ==
    \A k \in 1..(Len(dts) - 1) : dts[k + 1] - dts[k] = period

\* The output starts at the first input timestamp, steps by exactly one
\* period, and each tick carries the input value of its timestamp, null
\* when the input has none.
FillIsGrid(inp, values, period, out) ==
    LET dts == FromIso(inp)
        grid == FromIso(out.timestamps)
    IN  /\ Len(out.values) = Len(grid)
        /\ grid # <<>>
        /\ grid[1] = dts[1]
        /\ Regular(grid, period)
        /\ \A k \in DOMAIN grid :
              /\ out.timestamps[k] = isoformat(grid[k])
              /\ \A i \in DOMAIN dts : dts[i] = grid[k] => out.values[k] = values[i]
              /\ grid[k] \notin Range(dts) => out.values[k] = None

\* The output runs through the last input timestamp and holds every input
\* point with its value.
FillKeepsAll(inp, values, out) ==
    LET dts == FromIso(inp)
        grid == FromIso(out.timestamps)
    IN  /\ grid[Len(grid)] = dts[Len(dts)]
        /\ \A i \in DOMAIN dts :
              \E k \in DOMAIN grid : grid[k] = dts[i] /\ out.values[k] = values[i]

C7_FillIdempotent ==
    /\ (FillCalled /\ Regular(FromIso(call.timestamps), call.period))
       => rets[1] = Series(call.timestamps, call.values)
    /\ (call.fn = "_fill_missing_timestamps" /\ Len(rets) = 2)
       => rets[2] = rets[1]

\* A sparse series filled twice, and a regular grid holding a null.
C7_Witness ==
    /\ call.fn = "_fill_missing_timestamps" /\ Len(rets) = 2
    /\ Len(rets[1].timestamps) > Len(call.timestamps)
    /\ Len(rets[1].timestamps) = 3
    /\ Regular(FromIso(rets[1].timestamps), call.period)
    /\ None \in Range(rets[1].values)
    /\ rets[2].values = rets[1].values

\* slice_and_process_data returned the bundle of a dataset it holds.
Processed ==
    /\ call.fn = "slice_and_process_data" /\ Len(rets) = 1
    /\ rets[1].raised = ""
    /\ call.time_period \in TimePeriods
    /\ call.granularity_config[1][2] \in DOMAIN call.fetched_data.datasets

ProcessedPeriod == call.granularity_config[1][2]

ProcessedDataset == call.fetched_data.datasets[ProcessedPeriod]

\* The positions of the dataset inside the display window.
Sliced ==
    {i \in DOMAIN ProcessedDataset.timestamps :
        /\ call.fetched_data.end_time - WindowSeconds(call.time_period)
              <= ProcessedDataset.timestamps[i]
        /\ ProcessedDataset.timestamps[i] <= call.fetched_data.end_time}

HasBoth(i) ==
    /\ ProcessedDataset.data["input_tokens"][i] # None
    /\ ProcessedDataset.data["output_tokens"][i] # None

HasOne(i) ==
    (ProcessedDataset.data["input_tokens"][i] # None)
        # (ProcessedDataset.data["output_tokens"][i] # None)

TokensAt(i) ==
    Reading(ProcessedDataset.data["input_tokens"][i])
    + Reading(ProcessedDataset.data["output_tokens"][i])

\* The non-null values of a series of the bundle, as <<instant, value>>.
NonNull(bundle, key) ==
    IF key \notin DOMAIN bundle THEN {}
    ELSE {<<fromisoformat(bundle[key].timestamps[k]), bundle[key].values[k][1]>> :
            k \in {j \in DOMAIN bundle[key].timestamps :
                      bundle[key].values[j] # None}}

\* C8: TPM has a non-null value at t exactly when both token readings are
\* non-null at t (inside the display window), and that value is
\* (input + output) / (period / 60).
C8_TPMNeedsBothReadings ==
    Processed
    => LET tpm == NonNull(rets[1].value, "TPM")
       IN  /\ {p[1] : p \in tpm}
                = {ProcessedDataset.timestamps[i] : i \in {j \in Sliced : HasBoth(j)}}
           /\ \A p \in tpm, i \in Sliced :
                 ProcessedDataset.timestamps[i] = p[1]
                 => p[2].num * ProcessedPeriod = TokensAt(i) * 60 * p[2].den
           /\ \A p \in tpm, q \in tpm : p[1] = q[1] => p = q

\* The window holds a timestamp with both readings, one with the input
\* reading only and one with the output reading only; TPM has one value.
C8_Witness ==
    /\ Processed
    /\ \E i \in Sliced, j \in Sliced, k \in Sliced :
          /\ HasBoth(i)
          /\ ProcessedDataset.data["input_tokens"][j] # None
          /\ ProcessedDataset.data["output_tokens"][j] = None
          /\ ProcessedDataset.data["input_tokens"][k] = None
          /\ ProcessedDataset.data["output_tokens"][k] # None
    /\ Cardinality(NonNull(rets[1].value, "TPM")) = 1
    /\ Len(rets[1].value["TPM"].timestamps) = 1
    /\ Len(rets[1].value["InputTokenCount"].timestamps) >= 3

\* The sum of f over the members of S.
RECURSIVE SumOver(_, _)
SumOver(S, f) ==
    IF S = {} THEN 0
    ELSE LET x == CHOOSE y \in S : TRUE
         IN  f[x] + SumOver(S \ {x}, f)

\* The total of the TPD series of a bundle, 0 when it has none.
TPDTotal(bundle) ==
    IF "TPD" \in DOMAIN bundle THEN SumSeq(bundle["TPD"].values) ELSE 0

\* C9 as stated: every input-token or output-token reading of the sliced
\* window is in some TPD window total, the readings at timestamps with only
\* one of the two metrics included.
C9_TPDCountsEveryReading ==
    (Processed /\ call.time_period # "1hour")
    => TPDTotal(rets[1].value) = SumOver(Sliced, [i \in Sliced |-> TokensAt(i)])

\* What the code does instead: TPD totals the readings of the timestamps that
\* have both.
TPDCountsPairedReadings ==
    (Processed /\ call.time_period # "1hour")
    => TPDTotal(rets[1].value) = SumOver({i \in Sliced : HasBoth(i)}, [i \in Sliced |-> TokensAt(i)])

\* A display window of a day or more holding a timestamp with both readings
\* and one with a single reading: TPD is emitted without the single reading.
C9_Witness ==
    /\ Processed /\ call.time_period # "1hour"
    /\ \E i \in Sliced, j \in Sliced : HasBoth(i) /\ HasOne(j)
    /\ "TPD" \in DOMAIN rets[1].value
    /\ TPDTotal(rets[1].value) < SumOver(Sliced, [i \in Sliced |-> TokensAt(i)])

AggCalled == call.fn = "_aggregate_tokens_by_day" /\ Len(rets) = 1

\* The samples whose timestamp lies in the 24 hours starting at w.
SamplesIn(w) ==
    {i \in DOMAIN call.timestamps :
        w <= fromisoformat(call.timestamps[i])
        /\ fromisoformat(call.timestamps[i]) < w + Day}

\* C10: every sample lies in exactly one emitted window
\* [now - (k+1)*24h, now - k*24h), each emitted total is the sum of the
\* samples of its window, and the totals add up to the sum of the samples.
C10_DailyWindowsComplete ==
    AggCalled
    => LET starts == FromIso(rets[1].timestamps)
       IN  /\ Len(rets[1].values) = Len(starts)
           /\ \A k \in DOMAIN starts :
                 /\ starts[k] < call.now
                 /\ (call.now - starts[k]) % Day = 0
                 /\ rets[1].values[k] = SumOver(SamplesIn(starts[k]), call.token_values)
           /\ \A i \in DOMAIN call.timestamps :
                 Cardinality({k \in DOMAIN starts : i \in SamplesIn(starts[k])}) = 1
           /\ SumSeq(rets[1].values) = SumSeq(call.token_values)

\* Three samples with tokens: the oldest exactly on the older edge of its
\* window, the other two together in a younger window.
C10_Witness ==
    /\ AggCalled
    /\ Len(call.timestamps) = 3
    /\ \A i \in 1..3 : call.token_values[i] > 0
    /\ (call.now - fromisoformat(call.timestamps[1])) % Day = 0
    /\ Len(rets[1].values) = 2
    /\ rets[1].values[2] = call.token_values[2] + call.token_values[3]

Combined == call.fn = "aggregate_time_series" /\ Len(rets) = 1

\* The profiles holding a non-null value of metric m at timestamp ts.
Contributors(m, ts) ==
    {i \in DOMAIN call.all_ts :
        /\ m \in DOMAIN call.all_ts[i][2]
        /\ \E k \in DOMAIN call.all_ts[i][2][m].timestamps :
              /\ call.all_ts[i][2][m].timestamps[k] = ts
              /\ (m = "TPD" \/ call.all_ts[i][2][m].values[k] # None)}

\* The number profile i holds for metric m at timestamp ts.
Contribution(i, m, ts) ==
    LET series == call.all_ts[i][2][m]
        k == CHOOSE j \in DOMAIN series.timestamps : series.timestamps[j] = ts
    IN  IF m = "TPD" THEN series.values[k] ELSE series.values[k][1]

ContributedTotal(m, ts) ==
    SumOver(Contributors(m, ts),
            [i \in Contributors(m, ts) |-> Contribution(i, m, ts)])

\* The timestamps of metric m in the bundle of any profile.
TimestampsOf(m) ==
    UNION {Range(call.all_ts[i][2][m].timestamps) :
              i \in {j \in DOMAIN call.all_ts : m \in DOMAIN call.all_ts[j][2]}}

ValueIsSum(m, k) ==
    LET ts == rets[1][m].timestamps[k]
        v  == rets[1][m].values[k]
    IN  IF m = "TPD" THEN v = ContributedTotal(m, ts)
        ELSE \/ v = Some(ContributedTotal(m, ts))
             \/ v = None /\ ContributedTotal(m, ts) = 0

\* C12 as stated: a timestamp is on the aggregated series of metric m exactly
\* when the series of m of some profile holds it, and its value is the sum of
\* the profiles' non-null values of m there.
C12_TimelinePerMetric ==
    Combined
    => \A m \in DOMAIN rets[1] :
          /\ Range(rets[1][m].timestamps) = TimestampsOf(m)
          /\ \A k \in DOMAIN rets[1][m].timestamps : ValueIsSum(m, k)

\* C12, amended: every aggregated series has the same timeline, the ascending
\* union of the timestamps of TPM, RPM, TPD and InvocationThrottles of all
\* profiles; the value of metric m at a timestamp is the sum of the profiles'
\* non-null values of m there (null for TPM, RPM and InvocationThrottles when
\* that sum is zero, which includes the timestamps no series of m holds).
C12_TimelineShared ==
    Combined
    => \A m \in DOMAIN rets[1] :
          LET stamps == FromIso(rets[1][m].timestamps)
          IN  /\ Range(rets[1][m].timestamps) =
                    UNION {TimestampsOf(x) :
                              x \in {"TPM", "RPM", "TPD", "InvocationThrottles"}}
              /\ \A k \in 1..(Len(stamps) - 1) : stamps[k] < stamps[k + 1]
              /\ Len(rets[1][m].values) = Len(stamps)
              /\ \A k \in DOMAIN stamps : ValueIsSum(m, k)

\* One profile has TPM at a tick and a daily window elsewhere: the window
\* start is on the TPM series, with null, and the tick on the TPD series,
\* with 0.
C12_Witness ==
    /\ Combined /\ call.time_period = "1day"
    /\ isoformat(0) \in TimestampsOf("TPD") \ TimestampsOf("TPM")
    /\ isoformat(1) \in TimestampsOf("TPM") \ TimestampsOf("TPD")
    /\ rets[1]["TPM"].timestamps[1] = isoformat(0)
    /\ rets[1]["TPM"].values[1] = None
    /\ rets[1]["TPD"].timestamps[2] = isoformat(1)
    /\ rets[1]["TPD"].values[2] = 0

\* Every task of the fetch has been submitted.
Submitted == main_pc \in {"collect", "done"}

DistinctPeriods == {granularity_config[i][2] : i \in DOMAIN granularity_config}

\* The longest display window configured with the period.
LongestWindow(period) ==
    LET windows == {WindowSeconds(granularity_config[i][1]) :
                       i \in {j \in DOMAIN granularity_config :
                                 granularity_config[j][2] = period}}
    IN  CHOOSE w \in windows : \A x \in windows : x <= w

\* C13: the fetch runs one task, hence one set of chunk calls, per (model,
\* distinct period), over [now - longest window configured with the period,
\* now], each chunk of that window called at most once; slicing the bundle
\* of a display window out of the returned map makes no chunk call and
\* changes nothing of the fetch.
C13_OneFetchSetPerPeriod ==
    /\ [](Submitted =>
            /\ Len(futures) = Len(model_ids) * Cardinality(DistinctPeriods)
            /\ \A i \in DOMAIN model_ids, p \in DistinctPeriods :
                  Cardinality({t \in DOMAIN futures :
                                  /\ futures[t].model_id = model_ids[i]
                                  /\ futures[t].period = p}) = 1
            /\ \A t \in DOMAIN futures :
                  /\ futures[t].end_time = end_time
                  /\ futures[t].start_time =
                        end_time - LongestWindow(futures[t].period)
                  /\ futures[t].pc \in {"call", "progress", "store"} =>
                        /\ futures[t].chunks =
                              _chunk_time_range(futures[t].start_time,
                                                futures[t].end_time,
                                                futures[t].period)
                        /\ futures[t].i \in DOMAIN futures[t].chunks
            /\ chunks_completed <= ChunksFetched)
    /\ [][SliceFetched => UNCHANGED fetchVars]_vars
    /\ [][main_pc = "done" => UNCHANGED fetchVars]_vars

\* Two models, "1day" and "7days" both at 60 s and "30days" at 3600 s: four
\* tasks, all complete, and the "7days" bundle of a model sliced from its
\* 60 s dataset.
C13_Witness ==
    /\ main_pc = "done" /\ Len(rets) = 1
    /\ Len(model_ids) = 2 /\ Len(granularity_config) = 3
    /\ Len(futures) = 4 /\ AllComplete
    /\ call.time_period = "7days"
    /\ rets[1].raised = ""
    /\ "RPM" \in DOMAIN rets[1].value
    /\ rets[1].value["RPM"].timestamps # <<>>

\* The series of the bundle that pass a metric of the dataset through.
PassThrough ==
    {<<"InputTokenCount", "input_tokens">>, <<"OutputTokenCount", "output_tokens">>,
     <<"Invocations", "invocations">>, <<"InvocationThrottles", "throttles">>,
     <<"InvocationClientErrors", "client_errors">>,
     <<"InvocationServerErrors", "server_errors">>,
     <<"InvocationLatency", "latency">>}

\* The instants of a series of the bundle.
InstantsOf(bundle, key) ==
    IF key \notin DOMAIN bundle THEN {}
    ELSE {fromisoformat(bundle[key].timestamps[k]) :
            k \in DOMAIN bundle[key].timestamps}

InsideWindow(t) ==
    /\ call.fetched_data.end_time - WindowSeconds(call.time_period) <= t
    /\ t <= call.fetched_data.end_time

\* C14: the bundle of a display window of length W holds, for every metric
\* passed through, exactly the non-null readings of the dataset whose
\* timestamp lies in [end_time - W, end_time], each with the value of its own
\* timestamp; every timestamp of a passed-through series, of TPM and of RPM
\* lies in that range; RPM has a value exactly at the timestamps of the range
\* with an invocation reading, and TPD totals readings of the range only.
C14_SliceKeepsWindowOnly ==
    Processed
    => /\ \A pt \in PassThrough :
             /\ NonNull(rets[1].value, pt[1])
                  = {<<ProcessedDataset.timestamps[i],
                       ProcessedDataset.data[pt[2]][i][1]>> :
                       i \in {j \in Sliced : ProcessedDataset.data[pt[2]][j] # None}}
                \/ pt[1] \notin DOMAIN rets[1].value
             /\ \A t \in InstantsOf(rets[1].value, pt[1]) : InsideWindow(t)
       /\ \A i \in Sliced :
             /\ HasBoth(i)
                => /\ <<ProcessedDataset.timestamps[i],
                        ProcessedDataset.data["input_tokens"][i][1]>>
                         \in NonNull(rets[1].value, "InputTokenCount")
                   /\ <<ProcessedDataset.timestamps[i],
                        ProcessedDataset.data["output_tokens"][i][1]>>
                         \in NonNull(rets[1].value, "OutputTokenCount")
             /\ ProcessedDataset.data["invocations"][i] # None
                => <<ProcessedDataset.timestamps[i],
                     ProcessedDataset.data["invocations"][i][1]>>
                      \in NonNull(rets[1].value, "Invocations")
       /\ \A t \in InstantsOf(rets[1].value, "TPM")
                   \cup InstantsOf(rets[1].value, "RPM") : InsideWindow(t)
       /\ {p[1] : p \in NonNull(rets[1].value, "RPM")}
            = {ProcessedDataset.timestamps[i] :
                 i \in {j \in Sliced : ProcessedDataset.data["invocations"][j] # None}}
       /\ \A p \in NonNull(rets[1].value, "RPM"), i \in Sliced :
             ProcessedDataset.timestamps[i] = p[1]
             => p[2].num * ProcessedPeriod
                  = ProcessedDataset.data["invocations"][i][1] * 60 * p[2].den
       /\ TPDTotal(rets[1].value)
            = SumOver({i \in Sliced : HasBoth(i)}, [i \in Sliced |-> TokensAt(i)])
               * (IF call.time_period = "1hour" THEN 0 ELSE 1)

\* The dataset holds a point with both token readings and an invocation
\* reading before the display window and two points inside it; the bundle
\* has TPM, RPM and the passed-through series.
C14_Witness ==
    /\ Processed
    /\ \E i \in DOMAIN ProcessedDataset.timestamps :
          /\ i \notin Sliced
          /\ HasBoth(i)
          /\ ProcessedDataset.data["invocations"][i] # None
    /\ \E i \in Sliced, j \in Sliced :
          /\ i # j /\ HasBoth(i)
          /\ ProcessedDataset.data["invocations"][j] # None
    /\ {"TPM", "RPM", "InputTokenCount", "Invocations"} \subseteq DOMAIN rets[1].value
    /\ NonNull(rets[1].value, "TPM") # {}

\* Some longer display window is configured with a smaller period than a
\* shorter one.
NonMonotonic(config) ==
    \E i \in DOMAIN config, j \in DOMAIN config :
       /\ {config[i][1], config[j][1]} \subseteq TimePeriods
       /\ WindowSeconds(config[i][1]) < WindowSeconds(config[j][1])
       /\ config[i][2] > config[j][2]

\* C15: with a non-monotonic granularity configuration
\* fetch_all_data_mixed_granularity raises before it submits any task, so no
\* task exists and no chunk call is made.
C15_NonMonotonicRejected ==
    NonMonotonic(granularity_config)
    => /\ main_pc \in {"idle", "raised"}
       /\ futures = <<>>
       /\ chunks_completed = 0

\* "1day" at 3600 s and "7days" at 60 s: the fetch has returned a map, every
\* task ran to completion and chunk calls were counted.
C15_Witness ==
    /\ NonMonotonic(granularity_config)
    /\ main_pc = "done"
    /\ Len(futures) >= 2 /\ AllComplete
    /\ chunks_completed = total_chunks /\ chunks_completed > 0
    /\ all_fetched_data # <<>>

SliceCalled == call.fn = "slice_and_process_data" /\ Len(rets) = 1

\* The fetch half of C16: with a display-window key outside the five known
\* ones in the configuration, line 192 raises before any task is submitted.
UnknownKeyFailsBeforeSubmit ==
    UnknownKeys(granularity_config) # {}
    => /\ main_pc \in {"idle", "raised"}
       /\ futures = <<>>
       /\ chunks_completed = 0
       /\ all_fetched_data = <<>>

\* C16: slice_and_process_data called with a display-window key outside
\* "1hour", "1day", "7days", "14days", "30days" raises an error and returns
\* no bundle.
C16_UnknownKeyRaises ==
    (SliceCalled /\ call.time_period \notin TimePeriods)
    => rets[1].raised # ""

\* The key "2days" is in the configuration given to slice_and_process_data,
\* the dataset of its period holds points, and an empty bundle is returned.
C16_Witness ==
    /\ SliceCalled
    /\ call.time_period = "2days"
    /\ call.granularity_config # <<>>
    /\ call.granularity_config[1][2] \in DOMAIN call.fetched_data.datasets
    /\ call.fetched_data.datasets[call.granularity_config[1][2]].timestamps # <<>>
    /\ rets[1].raised = ""
    /\ rets[1].value = _empty_time_series("2days")

StatsCalled == call.fn = "aggregate_statistics" /\ Len(rets) = 1

\* The k-th smallest of the samples, k from 1.
KthSmallest(samples, k) ==
    CHOOSE v \in Range(samples) :
       /\ Cardinality({i \in DOMAIN samples : samples[i] < v}) < k
       /\ k <= Cardinality({i \in DOMAIN samples : samples[i] <= v})

\* Every profile's values of the metric, one after the other.
PooledValues(m) ==
    LET Of(i) == IF m \in DOMAIN call.all_stats[i][2]
                 THEN call.all_stats[i][2][m].values ELSE <<>>
    IN  IF Len(call.all_stats) = 1 THEN Of(1) ELSE Of(1) \o Of(2)

\* p is the q-th percentile of the samples under linear rank interpolation:
\* with the samples in ascending order s[0..n-1] and h = (n - 1) * q / 100,
\* p = s[floor(h)] + (h - floor(h)) * (s[floor(h) + 1] - s[floor(h)]).
IsLinearPercentile(p, samples, q) ==
    LET n == Len(samples)
        h == (n - 1) * q
        lo == h \div 100 + 1
        hi == IF lo < n THEN lo + 1 ELSE lo
    IN  /\ p.den > 0
        /\ p.num * 100
             = p.den * (100 * KthSmallest(samples, lo)
                        + (h % 100) * (KthSmallest(samples, hi)
                                       - KthSmallest(samples, lo)))

ReturnedBundle ==
    IF call.fn = "slice_and_process_data"
    THEN (IF rets[1].raised = "" THEN rets[1].value ELSE <<>>)
    ELSE rets[1]

\* C18: for the display window "1hour" the bundle returned by
\* slice_and_process_data, _empty_time_series, aggregate_time_series or
\* aggregate_statistics has no TPD entry, whatever the input.
C18_NoTPDForOneHour ==
    (Len(rets) = 1 /\ call.time_period = "1hour")
    => "TPD" \notin DOMAIN ReturnedBundle

\* aggregate_time_series for "1hour" over a profile whose bundle has a TPD
\* series with a point: the aggregate has a TPM series and no TPD.
C18_Witness ==
    /\ call.fn = "aggregate_time_series" /\ Len(rets) = 1
    /\ call.time_period = "1hour"
    /\ \E i \in DOMAIN call.all_ts :
          /\ "TPD" \in DOMAIN call.all_ts[i][2]
          /\ call.all_ts[i][2]["TPD"].timestamps # <<>>
    /\ "TPM" \in DOMAIN rets[1]
    /\ rets[1]["TPM"].timestamps # <<>>
    /\ "TPD" \notin DOMAIN rets[1]

\* The task submitted for a model and a period.
TaskFor(model_id, period) ==
    CHOOSE t \in DOMAIN futures :
       futures[t].model_id = model_id /\ futures[t].period = period

\* What the chunk responses of a task make of its slot: the all-empty dataset
\* when one of its chunk calls raised, the dataset of its responses otherwise.
SlotOf(f) ==
    IF f.state = "Failed"
    THEN [timestamps |-> <<>>, data |-> [m \in MetricSet |-> <<>>],
          period |-> f.period]
    ELSE RecordedDataset(f)

\* C19: the map fetch_all_data_mixed_granularity returns is determined by the
\* requested models, the fetch plan and the chunk responses of each task:
\* one entry per model holding end_time and, per period, the slot made of
\* that task's responses, whatever the order in which the tasks ran and
\* ended and whatever the size of the pool.
C19_MapIndependentOfOrder ==
    main_pc = "done"
    => all_fetched_data =
          [m \in (IF fetch_configs = <<>> THEN {} ELSE Range(model_ids)) |->
              [end_time |-> end_time,
               datasets |-> [p \in {fetch_configs[k].period : k \in DOMAIN fetch_configs} |->
                               SlotOf(futures[TaskFor(m, p)])]]]

\* Two workers: a task submitted later made its last chunk call before a
\* task submitted earlier, both completed, and the map has been returned.
C19_Witness ==
    /\ main_pc = "done"
    /\ max_workers = 2
    /\ \E t \in DOMAIN futures, u \in DOMAIN futures :
          /\ t < u
          /\ futures[t].state = "Complete" /\ futures[u].state = "Complete"
          /\ futures[t].loaded > futures[u].loaded
    /\ \E t \in DOMAIN futures : futures[t].state = "Failed"

\* The task has a chunk call in flight.
InFlight(f) == f.state = "Fetching" /\ f.pc = "call"

\* C20: a task requests its chunks one at a time in ascending window order:
\* its chunk index never goes back or skips, the first request follows the
\* start of the task, and the request of chunk i + 1 is made in the step in
\* which the response of chunk i is held and the progress counter is written
\* for it; a request in flight is for one chunk, chunks[i].
C20_ChunksInSequence ==
    /\ [][\A t \in (DOMAIN futures) \cap (DOMAIN futures') :
            LET f == futures[t]
                g == futures'[t]
            IN  /\ g.i \in {f.i, f.i + 1}
                /\ g.chunks # f.chunks => f.state = "Pending"
                /\ (InFlight(g) /\ (~InFlight(f) \/ g.i # f.i))
                   => \/ f.state = "Pending" /\ g.i = 1
                      \/ /\ f.state = "Fetching" /\ f.pc = "store"
                         /\ g.i = f.i + 1
                         /\ f.response # <<>>
                         /\ chunks_completed' = f.loaded + 1
                         /\ chunks_completed' >= g.i - 1]_vars
    /\ [](\A t \in DOMAIN futures :
            LET f == futures[t]
            IN  /\ \A i \in DOMAIN f.chunks, j \in DOMAIN f.chunks :
                      i < j => f.chunks[i][2] <= f.chunks[j][1]
                /\ f.state = "Fetching" /\ f.pc \in {"call", "progress", "store"}
                   => f.i \in DOMAIN f.chunks
                /\ f.pc = "call" => f.response = <<>>)

\* Two tasks each have a chunk call in flight, one of them for its second
\* chunk or a later one.
C20_Witness ==
    \E t \in DOMAIN futures, u \in DOMAIN futures :
       /\ t # u
       /\ InFlight(futures[t]) /\ InFlight(futures[u])
       /\ futures[t].i >= 2
       /\ chunks_completed >= 1

\* The tasks inside the read-modify-write of chunks_completed.
InIncrement ==
    {t \in DOMAIN futures :
        futures[t].state = "Fetching" /\ futures[t].pc = "store"}

\* A step of a worker task: the record of one submitted task changes.
WorkerStep ==
    /\ DOMAIN futures' = DOMAIN futures
    /\ futures' # futures

RECURSIVE LastObserved(_, _, _, _)
LastObserved(timestamps, values, ts, seen) ==
    IF timestamps = <<>> \/ values = <<>> THEN seen
    ELSE LastObserved(Tail(timestamps), Tail(values), ts,
                      IF Head(timestamps) = ts THEN Some(Head(values)) ELSE seen)

\* C22: in the dataset of a completed task every timestamp is on the timeline
\* once, and each metric holds there the value of the last point reported
\* for that timestamp, in the order the chunks were fetched and the points
\* stand in each response (null when none was reported).
C22_LastObservedWins ==
    \A t \in DOMAIN futures :
        futures[t].state = "Complete"
        => LET f == futures[t]
               timeline == f.result[1].timestamps
           IN  /\ \A i \in DOMAIN timeline, j \in DOMAIN timeline :
                     i < j => timeline[i] < timeline[j]
               /\ \A m \in MetricSet :
                     /\ Len(f.result[1].data[m]) = Len(timeline)
                     /\ \A k \in DOMAIN timeline :
                           f.result[1].data[m][k] =
                              LastObserved(f.collected[m].timestamps,
                                           f.collected[m].values,
                                           timeline[k], None)

\* The input tokens of instant 1 are reported as 1 by the first chunk and as
\* 2 by the second: the aligned series holds instant 1 once, with 2.
C22_Witness ==
    \E t \in DOMAIN futures :
        LET f == futures[t]
        IN  /\ f.state = "Complete"
            /\ f.collected["input_tokens"].timestamps = <<1, 1>>
            /\ f.collected["input_tokens"].values = <<1, 2>>
            /\ f.result[1].timestamps = <<1>>
            /\ f.result[1].data["input_tokens"] = <<Some(2)>>

\* ceil(n / d) for d > 0, and 0 when n <= 0.
CeilDiv(n, d) == IF n <= 0 THEN 0 ELSE (n + d - 1) \div d

\* C23: for every start, end and period P >= 1 the loop of
\* _chunk_time_range ends, and it returns exactly
\* ceil((end - start) / (100800 x P)) chunks, none when start >= end.
C23_ChunkLoopTerminates ==
    /\ <>(rets # <<>>)
    /\ [][call'.current_start >= call.current_start
          /\ (call' # call => call'.current_start > call.current_start)]_vars
    /\ [](rets # <<>>
          => /\ Len(rets[1]) = CeilDiv(call.end_time - call.start_time,
                                       100800 * call.period)
             /\ call.start_time >= call.end_time => rets[1] = <<>>
             /\ rets[1] = _chunk_time_range(call.start_time, call.end_time,
                                            call.period))

\* A window of one and a quarter longest chunks at period 2 was cut into two
\* chunks in two passes of the loop and returned.
C23_Witness ==
    /\ call.fn = "_chunk_time_range" /\ rets # <<>>
    /\ call.period = 2
    /\ 4 * (call.end_time - call.start_time) = 5 * (100800 * 2)
    /\ Len(rets[1]) = 2
    /\ call.current_start = call.end_time

\* C24: every window emitted by _aggregate_tokens_by_day starts at
\* now - (k+1)*24h for an integer k >= 0 and holds at least one sample; a
\* window of that family without a sample is not emitted; the emitted windows
\* are in ascending order of their start and at least 24 hours apart, so no
\* two overlap.
C24_OnlyWindowsWithSamples ==
    AggCalled
    => LET starts == FromIso(rets[1].timestamps)
       IN  /\ \A k \in DOMAIN starts :
                 /\ starts[k] <= call.now - Day
                 /\ (call.now - starts[k]) % Day = 0
                 /\ SamplesIn(starts[k]) # {}
           /\ \A k \in 0..(MaxAgeDays + 2) :
                 SamplesIn(call.now - (k + 1) * Day) = {}
                 => (call.now - (k + 1) * Day) \notin Range(starts)
           /\ \A k \in 1..(Len(starts) - 1) : starts[k] + Day <= starts[k + 1]

\* Samples in the newest window and in the third, none in the second, the
\* only sample of the third carrying no token: two windows are emitted, two
\* days apart, the older with total 0.
C24_Witness ==
    /\ AggCalled
    /\ Len(call.timestamps) = 3
    /\ LET starts == FromIso(rets[1].timestamps)
       IN  /\ Len(starts) = 2
           /\ starts[1] = call.now - 3 * Day
           /\ starts[2] = call.now - Day
           /\ SamplesIn(call.now - 2 * Day) = {}
    /\ rets[1].values[1] = 0
    /\ rets[1].values[2] > 0

\* The empty-but-structured bundle of a display window: TPM, RPM and
\* InvocationThrottles, and TPD unless the window is "1hour", each with no
\* timestamp and no value.
IsEmptyBundle(bundle, time_period) ==
    /\ DOMAIN bundle = {"TPM", "RPM", "InvocationThrottles"}
                          \cup (IF time_period = "1hour" THEN {} ELSE {"TPD"})
    /\ \A k \in DOMAIN bundle :
          bundle[k] = [timestamps |-> <<>>, values |-> <<>>]

\* slice_and_process_data was called for a known display window that is in
\* the configuration.
SliceOfConfigured ==
    /\ SliceCalled
    /\ call.time_period \in TimePeriods
    /\ call.granularity_config # <<>>

\* No series of any profile's bundle has a timestamp.
AllBundlesEmpty ==
    \A i \in DOMAIN call.all_ts :
       \A m \in DOMAIN call.all_ts[i][2] : call.all_ts[i][2][m].timestamps = <<>>

\* C25: slice_and_process_data returns the empty-but-structured bundle,
\* without raising, when the entity has no dataset of the configured period,
\* when that dataset is the all-empty one of a failed task, and when none of
\* its timestamps lies in the display window; aggregate_time_series over one
\* or more profiles whose bundles hold no timestamp returns the same bundle.
C25_FailuresGiveEmptyBundles ==
    /\ (SliceOfConfigured
        /\ ProcessedPeriod \notin DOMAIN call.fetched_data.datasets)
       => rets[1].raised = "" /\ IsEmptyBundle(rets[1].value, call.time_period)
    /\ (SliceOfConfigured
        /\ ProcessedPeriod \in DOMAIN call.fetched_data.datasets
        /\ Sliced = {})
       => rets[1].raised = "" /\ IsEmptyBundle(rets[1].value, call.time_period)
    /\ (Combined /\ call.all_ts # <<>> /\ AllBundlesEmpty)
       => IsEmptyBundle(rets[1], call.time_period)

\* A dataset whose points are all older than the display window "1hour" gave
\* the empty bundle.
C25_Witness ==
    /\ SliceOfConfigured
    /\ call.time_period = "1hour"
    /\ ProcessedPeriod \in DOMAIN call.fetched_data.datasets
    /\ Len(ProcessedDataset.timestamps) >= 2
    /\ Sliced = {}
    /\ rets[1].raised = ""
    /\ IsEmptyBundle(rets[1].value, "1hour")

\* Other states that C25 is about: the all-empty dataset of a failed task,
\* an entity without the configured period, and two profiles with empty
\* bundles aggregated for a day.
C25_FailedDatasetSliced ==
    /\ SliceOfConfigured
    /\ ProcessedPeriod \in DOMAIN call.fetched_data.datasets
    /\ ProcessedDataset = EmptyDataset(ProcessedPeriod)
    /\ IsEmptyBundle(rets[1].value, call.time_period)

C25_PeriodMissing ==
    /\ SliceOfConfigured
    /\ ProcessedPeriod \notin DOMAIN call.fetched_data.datasets
    /\ IsEmptyBundle(rets[1].value, call.time_period)

C25_EmptyBundlesAggregated ==
    /\ Combined /\ Len(call.all_ts) = 2 /\ AllBundlesEmpty
    /\ call.time_period = "1day"
    /\ \E i \in DOMAIN call.all_ts : DOMAIN call.all_ts[i][2] # {}
    /\ IsEmptyBundle(rets[1], "1day")

\* The periods of a configuration, in the order 1hour, 1day, 7days, 14days,
\* 30days, never decrease.
NonDecreasing(config) ==
    \A a \in DOMAIN config, b \in DOMAIN config :
       WindowSeconds(config[a][1]) < WindowSeconds(config[b][1])
       => config[a][2] <= config[b][2]

\* C26: the configuration UserInputs starts with is non-decreasing in the
\* order 1hour, 1day, 7days, 14days, 30days, and so is the configuration
\* that _configure_granularity leaves when it returns, whatever the user
\* answered; it configures all five display windows, with periods of 60,
\* 300 or 3600 seconds.
C26_ConfiguredMonotonic ==
    /\ NonDecreasing(DefaultGranularity)
    /\ (call.fn = "_configure_granularity" /\ rets # <<>>)
       => /\ NonDecreasing(call.granularity_config)
          /\ {call.granularity_config[k][1] : k \in DOMAIN call.granularity_config}
                = TimePeriods
          /\ \A k \in DOMAIN call.granularity_config :
                call.granularity_config[k][2] \in {60, 300, 3600}
          /\ UnknownKeys(call.granularity_config) = {}
          /\ ~NonMonotonic(call.granularity_config)

\* The user declined the defaults and chose 1 minute, 1 minute, 5 minutes,
\* 1 hour and 1 hour; the dialog has returned.
C26_Witness ==
    /\ call.fn = "_configure_granularity" /\ rets # <<>>
    /\ call.granularity_config =
          <<(<<"1hour", 60>>), <<"1day", 60>>, <<"7days", 300>>,
            <<"14days", 3600>>, <<"30days", 3600>>>>
    /\ call.min_granularity = 3600

\* The chunk calls of a task that have returned and been counted.
Counted(f) ==
    CASE f.state = "Pending" -> 0
      [] f.state = "Complete" -> Len(f.chunks)
      [] f.state = "Fetching" /\ f.pc = "align" -> Len(f.chunks)
      [] OTHER -> f.i - 1

\* C27: from the moment the plan is made, 0 <= chunks_completed <=
\* total_chunks; total_chunks >= 1 whenever a task is at the computation of
\* the percentage; chunks_completed is the number of chunk calls that
\* returned and were counted; and when the fetch has returned with a task
\* whose chunk call raised, chunks_completed < total_chunks.
C27_ProgressWithinTotal ==
    main_pc \in {"submit", "collect", "done"}
    => /\ 0 <= chunks_completed
       /\ chunks_completed <= total_chunks
       /\ \A t \in InIncrement :
             total_chunks >= 1 /\ futures[t].loaded + 1 <= total_chunks
       /\ chunks_completed = SumSeq([t \in DOMAIN futures |-> Counted(futures[t])])
       /\ (main_pc = "done" /\ \E t \in DOMAIN futures : futures[t].state = "Failed")
          => chunks_completed < total_chunks

\* The fetch has returned; one task failed at its second chunk call after
\* its first was counted, and another completed.
C27_Witness ==
    /\ main_pc = "done"
    /\ \E t \in DOMAIN futures, u \in DOMAIN futures :
          /\ futures[t].state = "Failed" /\ futures[t].i = 2
          /\ futures[u].state = "Complete"
    /\ chunks_completed >= 2
    /\ chunks_completed < total_chunks

\* Some thread can take a step, by the guards of the actions: the main
\* thread before it has submitted every task, or when the future it waits
\* for is over; a queued task when a pool thread is free; a running task
\* unless it waits for progress_lock.
CanStep ==
    \/ main_pc \in {"idle", "submit"}
    \/ /\ main_pc = "collect"
       /\ \/ next_result > Len(futures)
          \/ Terminal(next_result)
    \/ \E t \in DOMAIN futures :
          \/ futures[t].state = "Pending" /\ WorkerFree(t)
          \/ /\ futures[t].state = "Fetching"
             /\ futures[t].pc = "progress" => LockFree

\* C28: when every chunk call returns or raises,
\* fetch_all_data_mixed_granularity returns, and in the step in which it
\* returns, and from then on, every submitted task is Complete or Failed and
\* every planned task was submitted; until it has returned some thread can
\* take a step.
C28_FetchReturns ==
    /\ <>(main_pc = "done")
    /\ [][(main_pc # "done" /\ main_pc' = "done")
          => /\ \A t \in DOMAIN futures : Terminal(t)
             /\ Len(futures) = Len(model_ids) * Len(fetch_configs)
             /\ next_result = Len(futures) + 1]_vars
    /\ [](main_pc = "done"
          => \A t \in DOMAIN futures :
                /\ futures[t].state \in {"Complete", "Failed"}
                /\ futures[t].result # <<>>)
    /\ [](~Stopped => CanStep)

\* The fetch has returned with four tasks, one of them failed and the
\* others complete.
C28_Witness ==
    /\ main_pc = "done"
    /\ Len(futures) = 4
    /\ Cardinality({t \in DOMAIN futures : futures[t].state = "Failed"}) = 1
    /\ Cardinality({t \in DOMAIN futures : futures[t].state = "Complete"}) = 3

\* The bundle that _process_combined_time_series returned: the display window
\* held at least one point of the dataset.
ProcessedCombined == Processed /\ Sliced # {}

\* The non-null readings of a metric of the dataset inside the display
\* window, as <<instant, reading>>.
SlicedReadings(m) ==
    {<<ProcessedDataset.timestamps[i], ProcessedDataset.data[m][i][1]>> :
        i \in {j \in Sliced : ProcessedDataset.data[m][j] # None}}

\* C29: in every bundle returned by _process_combined_time_series the keys
\* InputTokenCount and OutputTokenCount are present exactly when TPM is, which
\* is exactly when some timestamp has both token readings non-null, and the
\* key Invocations is present exactly when RPM is, which is exactly when some
\* invocation reading is non-null; a pass-through series that is present
\* holds the readings unchanged.
C29_RawOnlyWithRate ==
    ProcessedCombined
    => LET bundle == rets[1].value
           keys   == DOMAIN bundle
       IN  /\ "TPM" \in keys <=> \E i \in Sliced : HasBoth(i)
           /\ "InputTokenCount" \in keys <=> "TPM" \in keys
           /\ "OutputTokenCount" \in keys <=> "TPM" \in keys
           /\ "RPM" \in keys
                 <=> \E i \in Sliced : ProcessedDataset.data["invocations"][i] # None
           /\ "Invocations" \in keys <=> "RPM" \in keys
           /\ "TPM" \in keys
                 => /\ NonNull(bundle, "InputTokenCount") = SlicedReadings("input_tokens")
                    /\ NonNull(bundle, "OutputTokenCount") = SlicedReadings("output_tokens")
           /\ "RPM" \in keys
                 => NonNull(bundle, "Invocations") = SlicedReadings("invocations")

\* Input and output tokens were both reported, never at the same timestamp,
\* and invocations were reported: the bundle has RPM and Invocations and
\* none of the three token keys.
C29_Witness ==
    /\ ProcessedCombined
    /\ SlicedReadings("input_tokens") # {}
    /\ SlicedReadings("output_tokens") # {}
    /\ \A i \in Sliced : ~HasBoth(i)
    /\ DOMAIN rets[1].value \cap {"TPM", "InputTokenCount", "OutputTokenCount"} = {}
    /\ {"RPM", "Invocations"} \subseteq DOMAIN rets[1].value

\* Both readings at one timestamp and a null invocation reading next to a
\* non-null one: all five keys, the nulls kept in the pass-through series.
C29_AllPresent ==
    /\ ProcessedCombined
    /\ \E i \in Sliced : HasBoth(i)
    /\ \E i \in Sliced : ProcessedDataset.data["invocations"][i] = None
    /\ {"TPM", "InputTokenCount", "OutputTokenCount", "RPM", "Invocations"}
          \subseteq DOMAIN rets[1].value
    /\ None \in Range(rets[1].value["Invocations"].values)

\* C30: for a display window other than "1hour", aggregate_time_series over
\* at least one profile returns TPM, RPM, InvocationThrottles and TPD on one
\* timeline, each with one value per timestamp; every TPD value is a number,
\* the sum of the profiles' daily totals at that timestamp, so 0 where no
\* profile has a daily window and 0, not null, where the totals sum to zero;
\* the other three series never hold a zero.
C30_TPDNeverElided ==
    (Combined /\ call.time_period # "1hour" /\ call.all_ts # <<>>)
    => /\ DOMAIN rets[1] = {"TPM", "RPM", "InvocationThrottles", "TPD"}
       /\ \A m \in DOMAIN rets[1] :
             /\ rets[1][m].timestamps = rets[1]["TPD"].timestamps
             /\ Len(rets[1][m].values) = Len(rets[1]["TPD"].timestamps)
       /\ \A k \in DOMAIN rets[1]["TPD"].values :
             LET ts == rets[1]["TPD"].timestamps[k]
                 v  == rets[1]["TPD"].values[k]
             IN  /\ v = ContributedTotal("TPD", ts)
                 /\ Contributors("TPD", ts) = {} => v = 0
       /\ \A m \in {"TPM", "RPM", "InvocationThrottles"} :
             Some(0) \notin Range(rets[1][m].values)

\* A profile with a daily window of total 0 and a TPM reading at another
\* timestamp: TPD is 0 at both timestamps, at the first as the sum of the
\* window and at the second for want of a window, and TPM is null at the
\* start of the window.
C30_Witness ==
    /\ Combined /\ call.time_period = "1day" /\ call.all_ts # <<>>
    /\ Len(rets[1]["TPD"].timestamps) = 2
    /\ rets[1]["TPD"].values = <<0, 0>>
    /\ Contributors("TPD", rets[1]["TPD"].timestamps[1]) # {}
    /\ Contributors("TPD", rets[1]["TPD"].timestamps[2]) = {}
    /\ rets[1]["TPM"].values[1] = None
    /\ rets[1]["TPM"].values[2] # None

\* Two profiles with a daily window at the same start and a throttle count of
\* zero at a later timestamp: TPD holds the sum of the two totals, and
\* InvocationThrottles holds null where TPD holds 0.
C30_SummedWindows ==
    /\ Combined /\ call.time_period = "1day" /\ Len(call.all_ts) = 2
    /\ \E k \in DOMAIN rets[1]["TPD"].timestamps :
          /\ Contributors("TPD", rets[1]["TPD"].timestamps[k]) = {1, 2}
          /\ rets[1]["TPD"].values[k] = 2
    /\ \E k \in DOMAIN rets[1]["TPD"].timestamps :
          /\ Contributors("InvocationThrottles", rets[1]["TPD"].timestamps[k]) # {}
          /\ rets[1]["InvocationThrottles"].values[k] = None
          /\ rets[1]["TPD"].values[k] = 0

====
